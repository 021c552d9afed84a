----------------------------- MODULE AbdProofs -----------------------------
(***************************************************************************)
(* Proofs about Abd: IInv is an inductive invariant, the safety properties *)
(* the runs check follow from it, and Abd implements TaggedRegister, for   *)
(* any number of clients, servers, objects, operations, restarts, lost     *)
(* requests and killed servers.  For each step there is a lemma on the     *)
(* client that takes it and one on the others, which see only that the     *)
(* servers' tags grow.                                                     *)
(***************************************************************************)
EXTENDS AbdInvariant, StoreLemmas

-----------------------------------------------------------------------------
(* What the pieces of the actions do *)

LEMMA DataTypes ==
  /\ LowestTagValue \in TagValue
  /\ InitialTagValue \in TagValue /\ InitialTagValue.Tag_var \in Tag
  /\ InitialTag \in Tag /\ LowestTag \in AnyTag /\ Tag \subseteq AnyTag
  /\ [Tag_var |-> [Version_num |-> 0, Client_id |-> 0], Value |-> NoValue] \in TagValue
  /\ [Version_num |-> 0, Client_id |-> 0] \in Tag
  /\ \A tv \in TagValue : [tv EXCEPT !.Value = NoValue] \in TagValue
BY DEF LowestTagValue, InitialTagValue, TagValue, LowestTag, InitialTag, Tag, AnyTag

\* A send appends the message to the channels of some of the object's servers
\* and leaves every other channel as it is.
LEMMA SendEffect ==
  ASSUME TypeOK, NEW c \in Clients, NEW m \in Message, SendToServers(c, m)
  PROVE  /\ requests' \in [Clients -> [Incarnations -> [Servers -> Seq(Message)]]]
         /\ drops' \in 0..MaxDrops
         /\ \A d \in Clients, i \in Incarnations, s \in Servers :
              \/ requests'[d][i][s] = requests[d][i][s]
              \/ /\ d = c /\ i = incarnation[c] /\ s \in Servers_names[m.Objname]
                 /\ requests'[d][i][s] = Append(requests[d][i][s], m)
<1>1. PICK lost \in SUBSET Servers_names[m.Objname] :
        /\ drops + Cardinality(lost) <= MaxDrops
        /\ drops' = drops + Cardinality(lost)
        /\ requests' = [requests EXCEPT ![c][incarnation[c]] =
             [s \in Servers |-> IF s \in Servers_names[m.Objname] \ lost
                                  THEN Append(requests[c][incarnation[c]][s], m)
                                  ELSE requests[c][incarnation[c]][s]]]
  BY DEF SendToServers
<1>2. incarnation[c] \in Incarnations
  BY DEF TypeOK
<1>3. requests \in [Clients -> [Incarnations -> [Servers -> Seq(Message)]]]
  BY DEF TypeOK
<1>4. \A i \in Incarnations, s \in Servers : Append(requests[c][i][s], m) \in Seq(Message)
  BY <1>3
<1>5. requests' \in [Clients -> [Incarnations -> [Servers -> Seq(Message)]]]
  <2> DEFINE row == [s \in Servers |-> IF s \in Servers_names[m.Objname] \ lost
                                         THEN Append(requests[c][incarnation[c]][s], m)
                                         ELSE requests[c][incarnation[c]][s]]
  <2>1. row \in [Servers -> Seq(Message)]
    BY <1>2, <1>3, <1>4
  <2>2. requests' = [requests EXCEPT ![c][incarnation[c]] = row]
    BY <1>1
  <2> HIDE DEF row
  <2> QED
    BY <1>2, <1>3, <2>1, <2>2
<1>6. Cardinality(lost) \in Nat
  <2>1. m.Objname \in Objects
    BY DEF Message
  <2>2. IsFiniteSet(lost)
    BY <2>1, ServersAssumption, FS_Subset
  <2> QED
    BY <2>2, FS_CardinalityType
<1>7. drops' \in 0..MaxDrops
  BY <1>1, <1>6, BoundsAssumption DEF TypeOK
<1>8. ASSUME NEW d \in Clients, NEW i \in Incarnations, NEW s \in Servers
      PROVE  \/ requests'[d][i][s] = requests[d][i][s]
             \/ /\ d = c /\ i = incarnation[c] /\ s \in Servers_names[m.Objname]
                /\ requests'[d][i][s] = Append(requests[d][i][s], m)
  BY <1>1, <1>2, <1>3
<1> QED
  BY <1>5, <1>7, <1>8

-----------------------------------------------------------------------------
(* Types *)

LEMMA QuorumSize ==
  ASSUME NEW o \in Objects
  PROVE  /\ IsFiniteSet(Servers_names[o]) /\ Servers_names[o] \subseteq Servers
         /\ quorum_size(o) \in Nat /\ quorum_size(o) >= 1
<1>1. Servers_names[o] \in SUBSET Servers
  BY ServersAssumption
<1>2. IsFiniteSet(Servers_names[o])
  BY <1>1, ServersAssumption, FS_Subset
<1>3. Cardinality(Servers_names[o]) \in Nat
  BY <1>2, FS_CardinalityType
<1> QED
  BY <1>1, <1>2, <1>3 DEF quorum_size

LEMMA TypeInit == Init => TypeOK
<1> SUFFICES ASSUME Init PROVE TypeOK
  OBVIOUS
<1>1. requests \in [Clients -> [Incarnations -> [Servers -> Seq(Message)]]]
      /\ replies \in [Clients -> [Servers -> Seq(Message)]]
  BY DEF Init
<1>2. incarnation \in [Clients -> Incarnations]
  BY BoundsAssumption DEF Init, Incarnations
<1>3. drops \in 0..MaxDrops
  BY BoundsAssumption DEF Init
<1>4. \A c \in Clients : ~ Busy(c)
  BY DEF Init, Busy
<1>5. /\ OpnumTable \in [Clients -> [Objects -> Nat]]
      /\ \A c \in Clients, o \in Objects : OpnumTable[c][o] <= MaxOpnum[c]
  BY BoundsAssumption DEF Init
<1> QED
  BY <1>1, <1>2, <1>3, <1>4, <1>5, DataTypes DEF Init, TypeOK, Phases

\* EnterPhase sets the counters of one client.
LEMMA EnterPhaseType ==
  ASSUME TypeOK, NEW c \in Clients, NEW phase \in Phases, NEW tv \in TagValue,
         EnterPhase(c, phase, tv)
  PROVE  /\ Phase' \in [Clients -> Phases]
         /\ num_responses' \in [Clients -> Nat]
         /\ TagValue_var' \in [Clients -> TagValue]
         /\ IsOnePhase' \in [Clients -> BOOLEAN]
         /\ responders' \in [Clients -> SUBSET Servers]
BY DEF EnterPhase, TypeOK

LEMMA EndOperationType ==
  ASSUME TypeOK, NEW c \in Clients, HasQuorum(c), EndOperation(c)
  PROVE  TypeOK'
<1>1. TagValue_var[c].Tag_var \in AnyTag /\ TagValue_var[c] \in TagValue
  BY DEF TypeOK, TagValue
<1>2. Objname[c] \in Objects
  BY DEF HasQuorum, Busy, TypeOK
<1>3. LargerTag(TagValue_var[c].Tag_var, completed[Objname[c]]) \in Tag
  BY <1>1, <1>2 DEF TypeOK, LargerTag, isGreaterTag, AnyTag, Tag, LowestTag
<1>4. completed' \in [Objects -> Tag]
  BY <1>2, <1>3 DEF EndOperation, TypeOK
<1>5. log' \in [Objects -> SUBSET [client : Clients, floor : Tag, TagValue_var : TagValue]]
  BY <1>1, <1>2 DEF EndOperation, TypeOK
<1>6. Objname' \in [Clients -> Objects \cup {NoObject}]
  BY DEF EndOperation, TypeOK
<1>7. \A d \in Clients : Busy(d)' => Busy(d) /\ Opnum(d)' = Opnum(d)
  BY DEF EndOperation, TypeOK, Busy, Opnum
<1>8. ABD_PUT_DATA \in Phases
  BY DEF Phases
<1> QED
  BY <1>4, <1>5, <1>6, <1>7, <1>8, EnterPhaseType, DataTypes
  DEF EndOperation, TypeOK, serverVars, netVars

LEMMA StartPutDataType ==
  ASSUME TypeOK, NEW c \in Clients, Busy(c), NEW tv \in TagValue, StartPutData(c, tv)
  PROVE  TypeOK'
<1> DEFINE m == [Objname |-> Objname[c], Opnum |-> Opnum(c),
                 Phase |-> ABD_PUT_DATA, TagValue_var |-> tv]
<1>1. ABD_PUT_DATA \in Phases /\ Objname[c] \in Objects /\ Opnum(c) \in Nat
  BY DEF Phases, TypeOK, Busy, Opnum
<1>2. m \in Message
  BY <1>1 DEF Message
<1>3. SendToServers(c, m)
  BY DEF StartPutData
<1> HIDE DEF m
<1>4. /\ requests' \in [Clients -> [Incarnations -> [Servers -> Seq(Message)]]]
      /\ drops' \in 0..MaxDrops
  BY <1>2, <1>3, SendEffect
<1>5. \A d \in Clients : (Busy(d)' <=> Busy(d)) /\ Opnum(d)' = Opnum(d)
  BY DEF StartPutData, Busy, Opnum
<1> QED
  BY <1>1, <1>4, <1>5, EnterPhaseType DEF StartPutData, TypeOK, serverVars, historyVars

LEMMA StartOperationType ==
  ASSUME TypeOK, NEW c \in Clients, NEW o \in Objects, NEW phase \in Phases,
         StartOperation(c, o, phase)
  PROVE  TypeOK'
<1> DEFINE m == [Objname |-> o, Opnum |-> OpnumTable[c][o] + 1, Phase |-> phase,
                 TagValue_var |-> [Tag_var |-> [Version_num |-> 0, Client_id |-> 0],
                                   Value |-> NoValue]]
<1>1. m \in Message
  BY DataTypes DEF Message, TypeOK
<1>2. SendToServers(c, m)
  BY DEF StartOperation
<1> HIDE DEF m
<1>3. /\ requests' \in [Clients -> [Incarnations -> [Servers -> Seq(Message)]]]
      /\ drops' \in 0..MaxDrops
  BY <1>1, <1>2, SendEffect
<1>4. /\ OpnumTable' \in [Clients -> [Objects -> Nat]]
      /\ \A d \in Clients, x \in Objects : OpnumTable'[d][x] <= MaxOpnum[d]
      /\ \A d \in Clients, x \in Objects : OpnumTable'[d][x] >= OpnumTable[d][x]
      /\ OpnumTable'[c][o] >= 1
  <2> DEFINE row == [OpnumTable[c] EXCEPT ![o] = OpnumTable[c][o] + 1]
  <2>1. OpnumTable' = [OpnumTable EXCEPT ![c] = row]
    BY DEF StartOperation
  <2>2. OpnumTable \in [Clients -> [Objects -> Nat]] /\ OpnumTable[c][o] < MaxOpnum[c]
    BY DEF TypeOK, StartOperation, OperationAsked
  <2>3. row \in [Objects -> Nat] /\ row[o] = OpnumTable[c][o] + 1
        /\ \A x \in Objects \ {o} : row[x] = OpnumTable[c][x]
    BY <2>2
  <2>4. MaxOpnum[c] \in Nat /\ \A x \in Objects : OpnumTable[c][x] \in Nat
    BY <2>2, BoundsAssumption
  <2>5. \A x \in Objects : row[x] <= MaxOpnum[c] /\ row[x] >= OpnumTable[c][x]
    BY <2>2, <2>3, <2>4 DEF TypeOK
  <2> HIDE DEF row
  <2>6. OpnumTable' \in [Clients -> [Objects -> Nat]] /\ OpnumTable'[c] = row
        /\ \A d \in Clients \ {c} : OpnumTable'[d] = OpnumTable[d]
    BY <2>1, <2>2, <2>3
  <2>7. ASSUME NEW d \in Clients, NEW x \in Objects
        PROVE  OpnumTable'[d][x] <= MaxOpnum[d] /\ OpnumTable'[d][x] >= OpnumTable[d][x]
    <3>1. CASE d = c
      BY <2>5, <2>6, <3>1
    <3>2. CASE d # c
      <4>1. OpnumTable'[d][x] = OpnumTable[d][x] /\ OpnumTable[d][x] \in Nat
        BY <2>2, <2>6, <3>2
      <4>2. OpnumTable[d][x] <= MaxOpnum[d]
        BY DEF TypeOK
      <4> QED
        BY <4>1, <4>2
    <3> QED
      BY <3>1, <3>2
  <2>8. OpnumTable'[c][o] >= 1
    BY <2>3, <2>4, <2>6
  <2> QED
    BY <2>6, <2>7, <2>8
<1>5. Objname' = [Objname EXCEPT ![c] = o]
  BY DEF StartOperation
<1>6. ASSUME NEW d \in Clients, Busy(d)' PROVE Opnum(d)' >= 1
  <2>1. CASE d = c
    BY <1>4, <1>5, <2>1 DEF Opnum, TypeOK
  <2>2. CASE d # c
    <3>1. Objname'[d] = Objname[d] /\ Busy(d) /\ Objname[d] \in Objects
      BY <1>5, <1>6, <2>2 DEF TypeOK, Busy
    <3>2. OpnumTable[d][Objname[d]] >= 1
      BY <3>1 DEF TypeOK, Opnum
    <3>3. OpnumTable[d][Objname[d]] \in Nat /\ OpnumTable'[d][Objname[d]] \in Nat
          /\ OpnumTable'[d][Objname[d]] >= OpnumTable[d][Objname[d]]
      BY <1>4, <3>1 DEF TypeOK
    <3> QED
      BY <3>1, <3>2, <3>3 DEF Opnum
  <2> QED
    BY <2>1, <2>2
<1>7. Objname' \in [Clients -> Objects \cup {NoObject}]
      /\ floor' \in [Clients -> Tag]
  BY <1>5 DEF StartOperation, TypeOK
<1> QED
  BY <1>3, <1>4, <1>6, <1>7, EnterPhaseType, DataTypes DEF StartOperation, TypeOK

LEMMA CollectReplyType ==
  ASSUME TypeOK, NEW c \in Clients, NEW s \in Servers, CollectReply(c, s)
  PROVE  TypeOK'
<1>1. /\ replies[c][s] \in Seq(Message) /\ replies[c][s] # <<>>
      /\ replies' = [replies EXCEPT ![c][s] = Tail(replies[c][s])]
  BY DEF CollectReply, TypeOK
<1>2. Tail(replies[c][s]) \in Seq(Message) /\ Head(replies[c][s]) \in Message
  BY <1>1, ReceiveMessages
<1>3. replies' \in [Clients -> [Servers -> Seq(Message)]]
  BY <1>1, <1>2 DEF TypeOK
<1>4. Head(replies[c][s]).TagValue_var \in TagValue
  BY <1>2 DEF Message
<1>5. TagValue_var' \in [Clients -> TagValue]
  BY <1>4 DEF CollectReply, TypeOK
<1>6. IsOnePhase' \in [Clients -> BOOLEAN]
  BY DEF CollectReply, TypeOK
<1>7. /\ num_responses' \in [Clients -> Nat]
      /\ responders' \in [Clients -> SUBSET Servers]
  BY DEF CollectReply, TypeOK
<1>8. \A d \in Clients : (Busy(d)' <=> Busy(d)) /\ Opnum(d)' = Opnum(d)
  BY DEF CollectReply, Busy, Opnum
<1> QED
  BY <1>3, <1>5, <1>6, <1>7, <1>8 DEF CollectReply, TypeOK, serverVars, historyVars

LEMMA DiscardReplyType ==
  ASSUME TypeOK, NEW c \in Clients, NEW s \in Servers, DiscardReply(c, s)
  PROVE  TypeOK'
<1>1. /\ replies[c][s] \in Seq(Message) /\ replies[c][s] # <<>>
      /\ replies' = [replies EXCEPT ![c][s] = Tail(replies[c][s])]
  BY DEF DiscardReply, TypeOK
<1>2. Tail(replies[c][s]) \in Seq(Message)
  BY <1>1, ReceiveMessages
<1>3. replies' \in [Clients -> [Servers -> Seq(Message)]]
  BY <1>1, <1>2 DEF TypeOK
<1>4. \A d \in Clients : (Busy(d)' <=> Busy(d)) /\ Opnum(d)' = Opnum(d)
  BY DEF DiscardReply, Busy, Opnum
<1> QED
  BY <1>3, <1>4 DEF DiscardReply, TypeOK, serverVars, phaseVars, historyVars

LEMMA NewTagType ==
  ASSUME TypeOK, NEW w \in Writers, Busy(w)
  PROVE  /\ newTag(w) \in Tag
         /\ [Tag_var |-> newTag(w), Value |-> <<w, Opnum(w)>>] \in TagValue
<1>1. w \in Clients
  BY DEF Clients
<1>2. TagValue_var[w].Tag_var \in AnyTag
  BY <1>1 DEF TypeOK, TagValue
<1>3. TagValue_var[w].Tag_var.Version_num + 1 \in Nat
  BY <1>2 DEF AnyTag, Tag, LowestTag
<1>4. NameTag[w][incarnation[w]] \in Nat
  BY <1>1, NameTagAssumption DEF TypeOK
<1>5. newTag(w) \in Tag
  BY <1>3, <1>4 DEF newTag, Tag
<1>6. Opnum(w) \in 1..MaxOpnum[w]
  BY <1>1, BoundsAssumption DEF Busy, Opnum, TypeOK
<1>7. <<w, Opnum(w)>> \in Values
  <2>1. <<w, Opnum(w)>> \in {w} \X (1..MaxOpnum[w])
    BY <1>6
  <2> QED
    BY <2>1 DEF Values
<1> QED
  BY <1>5, <1>7 DEF TagValue, AnyTag

LEMMA WriterPutsDataType ==
  ASSUME TypeOK, NEW w \in Clients, WriterPutsData(w)
  PROVE  TypeOK'
BY NewTagType, StartPutDataType DEF WriterPutsData, HasQuorum

LEMMA ReaderPutsDataType ==
  ASSUME TypeOK, NEW r \in Clients, ReaderPutsData(r)
  PROVE  TypeOK'
BY StartPutDataType DEF ReaderPutsData, HasQuorum, TypeOK

LEMMA EmulateNewClientType ==
  ASSUME TypeOK, NEW c \in Clients, emulateNewClient(c)
  PROVE  TypeOK'
<1>1. incarnation[c] \in 0..MaxIncarnation /\ incarnation[c] < MaxIncarnation
  BY DEF TypeOK, emulateNewClient, Incarnations
<1>2. incarnation[c] + 1 \in Incarnations
  BY <1>1, BoundsAssumption DEF Incarnations
<1>3. incarnation' \in [Clients -> Incarnations]
  BY <1>2 DEF TypeOK, emulateNewClient
<1>4. replies' \in [Clients -> [Servers -> Seq(Message)]]
  BY DEF TypeOK, emulateNewClient
<1>5. \A d \in Clients : (Busy(d)' <=> Busy(d)) /\ Opnum(d)' = Opnum(d)
  BY DEF emulateNewClient, Busy, Opnum
<1> QED
  BY <1>3, <1>4, <1>5 DEF emulateNewClient, TypeOK, serverVars, phaseVars, historyVars

LEMMA KillServerType ==
  ASSUME TypeOK, NEW s \in Servers, KillServer(s)
  PROVE  TypeOK'
<1>1. killed' \subseteq Servers
  BY DEF KillServer, TypeOK
<1>2. \A d \in Clients : (Busy(d)' <=> Busy(d)) /\ Opnum(d)' = Opnum(d)
  BY DEF KillServer, Busy, Opnum
<1> QED
  BY <1>1, <1>2 DEF KillServer, TypeOK, phaseVars, netVars, historyVars

-----------------------------------------------------------------------------
(* A server's step *)

\* A server's step moves one message: it takes m from a request channel, puts
\* its answer a into the reply channel if the socket is current, and stores the
\* pair of a put.
Served(s, c, i, m, a) ==
  /\ requests[c][i][s] # <<>> /\ m = Head(requests[c][i][s])
  /\ a.Objname = m.Objname /\ a.Opnum = m.Opnum /\ a.Phase = m.Phase
  /\ m.Phase # ABD_PUT_DATA =>
       a.TagValue_var.Tag_var = tagCodedElement_var[m.Objname][s].Tag_var
  /\ m.Phase = ABD_GET_DATA =>
       a.TagValue_var = tagCodedElement_var[m.Objname][s]
  /\ m.Phase = ABD_PUT_DATA => a.TagValue_var.Tag_var = m.TagValue_var.Tag_var
  /\ requests' = [requests EXCEPT ![c][i][s] = Tail(requests[c][i][s])]
  /\ replies' = IF i = incarnation[c]
                  THEN [replies EXCEPT ![c][s] = Append(replies[c][s], a)]
                  ELSE replies
  /\ tagCodedElement_var' =
       IF m.Phase = ABD_PUT_DATA
         THEN [tagCodedElement_var EXCEPT ![m.Objname][s] =
                 stored(tagCodedElement_var[m.Objname][s], m.TagValue_var)]
         ELSE tagCodedElement_var

LEMMA ServerEffect ==
  ASSUME TypeOK, NEW s \in Servers, NEW c \in Clients, NEW i \in Incarnations,
         ServerStep(s, c, i)
  PROVE  \E m, a \in Message : Served(s, c, i, m, a)
<1>1. requests[c][i][s] \in Seq(Message) /\ requests[c][i][s] # <<>>
  BY DEF TypeOK, ServerStep
<1>2. PICK m \in Message : m = Head(requests[c][i][s])
  BY <1>1, ReceiveMessages
<1>3. /\ m.Objname \in Objects /\ m.Phase \in Phases /\ m.TagValue_var \in TagValue
      /\ tagCodedElement_var[m.Objname][s] \in TagValue
  BY <1>2 DEF Message, TypeOK
<1>4. requests' = [requests EXCEPT ![c][i][s] = Tail(requests[c][i][s])]
  BY DEF ServerStep
<1>5. getTagResp(s, c, i, m) \/ getDataResp(s, c, i, m) \/ putDataResp(s, c, i, m)
  BY <1>2 DEF ServerStep
<1>6. CASE getTagResp(s, c, i, m)
  <2> DEFINE a == [m EXCEPT !.TagValue_var =
                     [Tag_var |-> tagCodedElement_var[m.Objname][s].Tag_var,
                      Value |-> m.TagValue_var.Value]]
  <2>1. a \in Message
    BY <1>2, <1>3 DEF Message, TagValue
  <2>2. /\ a.Objname = m.Objname /\ a.Opnum = m.Opnum /\ a.Phase = m.Phase
        /\ a.TagValue_var.Tag_var = tagCodedElement_var[m.Objname][s].Tag_var
    BY <1>2, <1>3 DEF Message
  <2>3. /\ m.Phase # ABD_PUT_DATA /\ m.Phase # ABD_GET_DATA
        /\ tagCodedElement_var' = tagCodedElement_var
        /\ replies' = IF i = incarnation[c]
                        THEN [replies EXCEPT ![c][s] = Append(replies[c][s], a)]
                        ELSE replies
    BY <1>6 DEF getTagResp, Replies, ABD_GET_TAG, ABD_GET_DATA, ABD_PUT_DATA
  <2> HIDE DEF a
  <2> QED
    BY <1>1, <1>2, <1>4, <2>1, <2>2, <2>3 DEF Served
<1>7. CASE getDataResp(s, c, i, m)
  <2> DEFINE a == [m EXCEPT !.TagValue_var = tagCodedElement_var[m.Objname][s]]
  <2>1. a \in Message
    BY <1>2, <1>3 DEF Message, TagValue
  <2>2. /\ a.Objname = m.Objname /\ a.Opnum = m.Opnum /\ a.Phase = m.Phase
        /\ a.TagValue_var = tagCodedElement_var[m.Objname][s]
    BY <1>2, <1>3 DEF Message
  <2>3. /\ m.Phase # ABD_PUT_DATA /\ m.Phase = ABD_GET_DATA
        /\ tagCodedElement_var' = tagCodedElement_var
        /\ replies' = IF i = incarnation[c]
                        THEN [replies EXCEPT ![c][s] = Append(replies[c][s], a)]
                        ELSE replies
    BY <1>7 DEF getDataResp, Replies, ABD_GET_TAG, ABD_GET_DATA, ABD_PUT_DATA
  <2> HIDE DEF a
  <2> QED
    BY <1>1, <1>2, <1>4, <2>1, <2>2, <2>3 DEF Served
<1>8. CASE putDataResp(s, c, i, m)
  <2> DEFINE a == [m EXCEPT !.TagValue_var = [m.TagValue_var EXCEPT !.Value = NoValue]]
  <2>1. a \in Message
    BY <1>2, <1>3, DataTypes DEF Message
  <2>2. /\ a.Objname = m.Objname /\ a.Opnum = m.Opnum /\ a.Phase = m.Phase
        /\ a.TagValue_var.Tag_var = m.TagValue_var.Tag_var
    BY <1>2, <1>3 DEF Message, TagValue
  <2>3. /\ m.Phase = ABD_PUT_DATA /\ m.Phase # ABD_GET_DATA
        /\ tagCodedElement_var' = [tagCodedElement_var EXCEPT ![m.Objname][s] =
                        stored(tagCodedElement_var[m.Objname][s], m.TagValue_var)]
        /\ replies' = IF i = incarnation[c]
                        THEN [replies EXCEPT ![c][s] = Append(replies[c][s], a)]
                        ELSE replies
    BY <1>8 DEF putDataResp, Replies, ABD_GET_TAG, ABD_GET_DATA, ABD_PUT_DATA
  <2> HIDE DEF a
  <2> QED
    BY <1>1, <1>2, <1>4, <2>1, <2>2, <2>3 DEF Served
<1> QED
  BY <1>5, <1>6, <1>7, <1>8

LEMMA ServerStepType ==
  ASSUME TypeOK, NEW s \in Servers, NEW c \in Clients, NEW i \in Incarnations,
         ServerStep(s, c, i)
  PROVE  TypeOK'
<1>0. PICK m, a \in Message : Served(s, c, i, m, a)
  BY ServerEffect
<1>1. /\ requests[c][i][s] # <<>> /\ m = Head(requests[c][i][s])
      /\ requests' = [requests EXCEPT ![c][i][s] = Tail(requests[c][i][s])]
      /\ replies' = IF i = incarnation[c]
                      THEN [replies EXCEPT ![c][s] = Append(replies[c][s], a)]
                      ELSE replies
      /\ tagCodedElement_var' =
           IF m.Phase = ABD_PUT_DATA
             THEN [tagCodedElement_var EXCEPT ![m.Objname][s] =
                     stored(tagCodedElement_var[m.Objname][s], m.TagValue_var)]
             ELSE tagCodedElement_var
  BY <1>0 DEF Served
<1>2. Tail(requests[c][i][s]) \in Seq(Message)
  BY <1>1, ReceiveMessages DEF TypeOK
<1>3. requests' \in [Clients -> [Incarnations -> [Servers -> Seq(Message)]]]
  <2> DEFINE row == [requests[c] EXCEPT ![i][s] = Tail(requests[c][i][s])]
  <2>1. row \in [Incarnations -> [Servers -> Seq(Message)]]
    BY <1>2 DEF TypeOK
  <2>2. requests' = [requests EXCEPT ![c] = row]
    BY <1>1
  <2> HIDE DEF row
  <2> QED
    BY <2>1, <2>2 DEF TypeOK
<1>4. Append(replies[c][s], a) \in Seq(Message)
  BY DEF TypeOK
<1>5. replies' \in [Clients -> [Servers -> Seq(Message)]]
  BY <1>1, <1>4 DEF TypeOK
<1>6. m.Objname \in Objects /\ m.TagValue_var \in TagValue
  BY DEF Message
<1>7. stored(tagCodedElement_var[m.Objname][s], m.TagValue_var) \in TagValue
  BY <1>6 DEF stored, TypeOK
<1>8. tagCodedElement_var' \in [Objects -> [Servers -> TagValue]]
  BY <1>1, <1>6, <1>7 DEF TypeOK
<1>9. \A d \in Clients : (Busy(d)' <=> Busy(d)) /\ Opnum(d)' = Opnum(d)
  BY DEF ServerStep, Busy, Opnum
<1> QED
  BY <1>3, <1>5, <1>8, <1>9 DEF ServerStep, TypeOK, phaseVars, historyVars

LEMMA StutterType ==
  ASSUME TypeOK, UNCHANGED vars
  PROVE  TypeOK'
<1>1. \A d \in Clients : (Busy(d)' <=> Busy(d)) /\ Opnum(d)' = Opnum(d)
  BY DEF vars, Busy, Opnum
<1> QED
  BY <1>1 DEF vars, TypeOK

LEMMA TypeInductive ==
  ASSUME TypeOK, [Next]_vars
  PROVE  TypeOK'
<1>1. ASSUME NEW c \in Clients, ClientStep(c) PROVE TypeOK'
  <2>1. ASSUME NEW o \in Objects, StartRead(c, o) \/ StartWrite(c, o) PROVE TypeOK'
    BY <2>1, StartOperationType DEF StartRead, StartWrite, Phases
  <2>2. ASSUME NEW s \in Servers, CollectReply(c, s) \/ DiscardReply(c, s) PROVE TypeOK'
    BY <2>2, CollectReplyType, DiscardReplyType
  <2>3. ASSUME WriterPutsData(c) \/ ReaderPutsData(c) PROVE TypeOK'
    BY <2>3, WriterPutsDataType, ReaderPutsDataType
  <2>4. ASSUME ReadInOnePhase(c) \/ PutDataCompletes(c) PROVE TypeOK'
    BY <2>4, EndOperationType DEF ReadInOnePhase, PutDataCompletes
  <2>5. ASSUME emulateNewClient(c) PROVE TypeOK'
    BY <2>5, EmulateNewClientType
  <2> QED
    BY <1>1, <2>1, <2>2, <2>3, <2>4, <2>5 DEF ClientStep
<1>2. ASSUME NEW s \in Servers, NEW c \in Clients, NEW i \in Incarnations,
             ServerStep(s, c, i)
      PROVE  TypeOK'
  BY <1>2, ServerStepType
<1>3. ASSUME NEW s \in Servers, KillServer(s) PROVE TypeOK'
  BY <1>3, KillServerType
<1>4. ASSUME AllDone \/ UNCHANGED vars PROVE TypeOK'
  BY <1>4, StutterType DEF AllDone
<1> QED
  BY <1>1, <1>2, <1>3, <1>4 DEF Next

\* Every variable stays in its type and no client starts more operations than
\* it was asked for, in every deployment.
THEOREM TypeCorrect == Spec => []TypeOK
BY TypeInit, TypeInductive, PTL DEF Spec

\* A server's tag for an object never goes back, and the value under a tag
\* never changes: putDataResp stores only what is greater.
LEMMA ServerStepForward ==
  ASSUME TypeOK, NEW s \in Servers, NEW c \in Clients, NEW i \in Incarnations,
         ServerStep(s, c, i), NEW o \in Objects, NEW x \in Servers
  PROVE  \/ tagCodedElement_var'[o][x] = tagCodedElement_var[o][x]
         \/ isGreaterTag(tagCodedElement_var'[o][x].Tag_var,
                         tagCodedElement_var[o][x].Tag_var)
<1>1. PICK m, a \in Message : Served(s, c, i, m, a)
  BY ServerEffect
<1>2. tagCodedElement_var' =
        IF m.Phase = ABD_PUT_DATA
          THEN [tagCodedElement_var EXCEPT ![m.Objname][s] =
                  stored(tagCodedElement_var[m.Objname][s], m.TagValue_var)]
          ELSE tagCodedElement_var
  BY <1>1 DEF Served
<1>3. m.Objname \in Objects /\ tagCodedElement_var \in [Objects -> [Servers -> TagValue]]
  BY DEF Message, TypeOK
<1>4. tagCodedElement_var'[o][x] =
        IF m.Phase = ABD_PUT_DATA /\ o = m.Objname /\ x = s
          THEN stored(tagCodedElement_var[o][s], m.TagValue_var)
          ELSE tagCodedElement_var[o][x]
  BY <1>2, <1>3
<1> QED
  BY <1>4 DEF stored

\* The same for every step: no client action, kill or loss touches what the
\* servers hold (ServersMoveForward, abd.go 173-181).
THEOREM ServersForward == Spec => ServersMoveForward
<1>1. ASSUME TypeOK, [Next]_vars
      PROVE  [\A o \in Objects, s \in Servers :
                \/ tagCodedElement_var'[o][s] = tagCodedElement_var[o][s]
                \/ isGreaterTag(tagCodedElement_var'[o][s].Tag_var,
                                tagCodedElement_var[o][s].Tag_var)]_tagCodedElement_var
  <2>1. ASSUME NEW c \in Clients, ClientStep(c) PROVE UNCHANGED tagCodedElement_var
    BY <2>1 DEF ClientStep, StartRead, StartWrite, StartOperation, CollectReply,
       DiscardReply, WriterPutsData, ReaderPutsData, StartPutData, ReadInOnePhase,
       PutDataCompletes, EndOperation, emulateNewClient, serverVars
  <2>2. ASSUME NEW s \in Servers, NEW c \in Clients, NEW i \in Incarnations,
               ServerStep(s, c, i), NEW o \in Objects, NEW x \in Servers
        PROVE  \/ tagCodedElement_var'[o][x] = tagCodedElement_var[o][x]
               \/ isGreaterTag(tagCodedElement_var'[o][x].Tag_var,
                               tagCodedElement_var[o][x].Tag_var)
    BY <1>1, <2>2, ServerStepForward
  <2>3. ASSUME (\E s \in Servers : KillServer(s)) \/ AllDone \/ UNCHANGED vars
        PROVE  UNCHANGED tagCodedElement_var
    BY <2>3 DEF KillServer, AllDone, vars
  <2> QED
    BY <1>1, <2>1, <2>2, <2>3 DEF Next
<1> QED
  BY <1>1, TypeCorrect, PTL DEF Spec, ServersMoveForward

-----------------------------------------------------------------------------
(* Quorums *)

\* A client with its quorum has heard from a majority of the object's servers,
\* and holds a proper tag.
LEMMA QuorumTag ==
  ASSUME IInv, NEW c \in Clients, HasQuorum(c)
  PROVE  /\ Objname[c] \in Objects /\ responders[c] # {}
         /\ responders[c] \in Majorities(Objname[c])
         /\ TagValue_var[c].Tag_var \in Tag
<1>1. Busy(c) /\ Objname[c] \in Objects /\ num_responses[c] = quorum_size(Objname[c])
  BY DEF HasQuorum, Busy, IInv, TypeOK
<1>2. /\ num_responses[c] = Cardinality(responders[c])
      /\ responders[c] \subseteq Servers_names[Objname[c]]
  BY <1>1 DEF IInv, ChannelInv, ChannelInvOf, Counted
<1>3. Cardinality(responders[c]) >= quorum_size(Objname[c]) /\ Cardinality(responders[c]) >= 1
  <2>1. quorum_size(Objname[c]) \in Nat /\ quorum_size(Objname[c]) >= 1
    BY <1>1, QuorumSize
  <2>2. Cardinality(responders[c]) = quorum_size(Objname[c])
    BY <1>1, <1>2
  <2> QED
    BY <2>1, <2>2
<1>4. responders[c] # {}
  BY <1>3, FS_EmptySet
<1>5. TagValue_var[c].Tag_var \in Tag
  BY <1>1, <1>4 DEF IInv, ValueInv, ValueInvOf, PhaseOfKind
<1> QED
  BY <1>1, <1>2, <1>3, <1>4, <1>5 DEF Majorities

-----------------------------------------------------------------------------
(* Channels *)

\* The variables that belong to client c.
ClientVars(c) ==
  <<Objname[c], OpnumTable[c], Phase[c], incarnation[c], num_responses[c],
    TagValue_var[c], IsOnePhase[c], requests[c], replies[c], responders[c], floor[c]>>

\* The messages of c's phase are the same as long as c stays in it.
LEMMA CurrentSame ==
  ASSUME NEW c \in Clients, Objname'[c] = Objname[c],
         OpnumTable'[c] = OpnumTable[c], Phase'[c] = Phase[c]
  PROVE  /\ Current(c)' = Current(c) /\ Busy(c)' = Busy(c)
         /\ Opnum(c)' = Opnum(c)
         /\ \A s, m : NotFromTheFuture(c, s, m) => NotFromTheFuture(c, s, m)'
BY DEF Current, Busy, Opnum, isMessageUseful, NotFromTheFuture

\* A client whose variables do not change keeps its part of the invariant.
LEMMA ChannelFrame ==
  ASSUME NEW c \in Clients, ChannelInvOf(c), UNCHANGED ClientVars(c)
  PROVE  ChannelInvOf(c)'
<1>1. /\ Current(c)' = Current(c) /\ Busy(c)' = Busy(c)
      /\ \A s, m : NotFromTheFuture(c, s, m) => NotFromTheFuture(c, s, m)'
  BY CurrentSame DEF ClientVars
<1>2. InOrder(c)'
  BY <1>1 DEF ChannelInvOf, InOrder, ClientVars
<1>3. OneCurrent(c)'
  BY <1>1 DEF ChannelInvOf, OneCurrent, ClientVars
<1>4. Counted(c)'
  BY <1>1 DEF ChannelInvOf, Counted, ClientVars
<1> QED
  BY <1>2, <1>3, <1>4 DEF ChannelInvOf

\* No message that is already under way belongs to the phase about to begin.
NoneOf(c, S) ==
  \A s \in Servers :
    /\ Messages(replies[c][s]) \cap S = {}
    /\ \A i \in Incarnations : Messages(requests[c][i][s]) \cap S = {}

\* A client that begins a phase by sending m to the servers.
LEMMA FreshPhaseChannels ==
  ASSUME TypeOK, NEW c \in Clients, NEW m \in Message, SendToServers(c, m),
         replies' = replies, incarnation' = incarnation,
         responders'[c] = {}, num_responses'[c] = 0,
         Objname'[c] = m.Objname,
         NEW C, C = Current(c)', NoneOf(c, C),
         \A s \in Servers : \A n :
           (\/ n \in Messages(replies[c][s])
            \/ \E i \in Incarnations : n \in Messages(requests[c][i][s])
            \/ n = m /\ s \in Servers_names[m.Objname])
           => NotFromTheFuture(c, s, n)'
  PROVE  ChannelInvOf(c)'
<1>1. ASSUME NEW i \in Incarnations, NEW s \in Servers
      PROVE  \/ requests'[c][i][s] = requests[c][i][s]
             \/ /\ i = incarnation[c] /\ s \in Servers_names[m.Objname]
                /\ requests'[c][i][s] = Append(requests[c][i][s], m)
  BY SendEffect
<1>2. ASSUME NEW i \in Incarnations, NEW s \in Servers
      PROVE  /\ requests[c][i][s] \in Seq(Message)
             /\ Messages(Append(requests[c][i][s], m)) = Messages(requests[c][i][s]) \cup {m}
             /\ AtMostOne(requests[c][i][s], C)
             /\ AtMostOne(Append(requests[c][i][s], m), C)
  <2>1. requests[c][i][s] \in Seq(Message)
    BY DEF TypeOK
  <2>2. Messages(requests[c][i][s]) \cap C = {}
    BY DEF NoneOf
  <2>3. AtMostOne(requests[c][i][s], C)
    BY <2>2 DEF AtMostOne, Messages
  <2> QED
    BY <2>1, <2>2, <2>3, SendMessages, SendAtMostOne
<1>3. ASSUME NEW s \in Servers
      PROVE  AtMostOne(replies[c][s], C)
  BY DEF NoneOf, AtMostOne, Messages
<1>4. InOrder(c)'
  <2> SUFFICES ASSUME NEW s \in Servers
               PROVE  /\ \A i \in Incarnations : \A n \in Messages(requests'[c][i][s]) :
                           NotFromTheFuture(c, s, n)'
                      /\ \A n \in Messages(replies'[c][s]) : NotFromTheFuture(c, s, n)'
    BY DEF InOrder
  <2>1. ASSUME NEW i \in Incarnations, NEW n \in Messages(requests'[c][i][s])
        PROVE  n \in Messages(requests[c][i][s]) \/ (n = m /\ s \in Servers_names[m.Objname])
    <3>1. CASE requests'[c][i][s] = requests[c][i][s]
      BY <2>1, <3>1
    <3>2. CASE requests'[c][i][s] # requests[c][i][s]
      <4>1. /\ s \in Servers_names[m.Objname]
            /\ requests'[c][i][s] = Append(requests[c][i][s], m)
        BY <1>1, <3>2
      <4>2. Messages(requests'[c][i][s]) = Messages(requests[c][i][s]) \cup {m}
        BY <1>2, <4>1
      <4> QED
        BY <2>1, <4>1, <4>2
    <3> QED
      BY <3>1, <3>2
  <2> QED
    BY <2>1
<1>5. OneCurrent(c)'
  <2>1. ASSUME NEW s \in Servers
        PROVE  /\ AtMostOne(replies'[c][s], C)
               /\ Messages(replies'[c][s]) \cap C = {}
               /\ s \notin responders'[c]
    BY <1>3 DEF NoneOf
  <2>2. ASSUME NEW s \in Servers, NEW i \in Incarnations
        PROVE  /\ AtMostOne(requests'[c][i][s], C)
               /\ Messages(requests'[c][i][s]) \cap C # {} => i = incarnation'[c]
    BY <1>1, <1>2 DEF NoneOf
  <2> QED
    BY <2>1, <2>2 DEF OneCurrent
<1>6. Counted(c)'
  <2>1. m.Objname \in Objects
    BY DEF Message
  <2>2. quorum_size(m.Objname) >= 0
    BY <2>1, QuorumSize
  <2>3. quorum_size(m.Objname)' = quorum_size(m.Objname)
    OBVIOUS
  <2> QED
    BY <2>1, <2>2, FS_EmptySet DEF Counted, Busy, quorum_size
<1> QED
  BY <1>4, <1>5, <1>6 DEF ChannelInvOf

LEMMA StartOperationChannels ==
  ASSUME TypeOK, NEW c \in Clients, ChannelInvOf(c), NEW o \in Objects,
         NEW phase \in Phases, StartOperation(c, o, phase)
  PROVE  ChannelInvOf(c)' /\ NoneOf(c, Current(c)')
<1> PICK m : m = [Objname |-> o, Opnum |-> OpnumTable[c][o] + 1, Phase |-> phase,
                  TagValue_var |-> [Tag_var |-> [Version_num |-> 0, Client_id |-> 0],
                                    Value |-> NoValue]]
  OBVIOUS
<1>1. m \in Message /\ m.TagValue_var.Tag_var \in Tag
  BY DataTypes DEF Message, TypeOK
<1>2. /\ SendToServers(c, m) /\ replies' = replies /\ incarnation' = incarnation
      /\ m.Objname = o /\ m.Opnum = OpnumTable[c][o] + 1 /\ m.Phase = phase
  BY DEF StartOperation
<1>3. responders'[c] = {} /\ num_responses'[c] = 0 /\ Phase'[c] = phase
  BY DEF StartOperation, EnterPhase, TypeOK
<1>4. Objname'[c] = o
  BY DEF StartOperation, TypeOK
<1>5. /\ OpnumTable'[c][o] = OpnumTable[c][o] + 1
      /\ \A x \in Objects : OpnumTable[c][x] \in Nat
      /\ \A x \in Objects : OpnumTable'[c][x] = IF x = o THEN OpnumTable[c][o] + 1
                                                     ELSE OpnumTable[c][x]
  BY DEF StartOperation, TypeOK
<1> DEFINE Old(s, n) == \/ n \in Messages(replies[c][s])
                        \/ \E i \in Incarnations : n \in Messages(requests[c][i][s])
<1>6. ASSUME NEW s \in Servers, NEW n, Old(s, n)
      PROVE  n \in Message /\ NotFromTheFuture(c, s, n)
  <2>1. n \in Message
    BY <1>6 DEF TypeOK, Messages
  <2> QED
    BY <1>6, <2>1 DEF ChannelInvOf, InOrder
<1>7. ASSUME NEW s \in Servers, NEW n, Old(s, n)
      PROVE  /\ n \notin Current(c)'
             /\ NotFromTheFuture(c, s, n)'
  <2>1. /\ n.Objname \in Objects /\ n.Opnum \in Nat
        /\ n.Opnum <= OpnumTable[c][n.Objname] /\ s \in Servers_names[n.Objname]
        /\ n.TagValue_var.Tag_var \in Tag
    BY <1>6, <1>7 DEF NotFromTheFuture, Message
  <2>2. n.Objname = o => n.Opnum # OpnumTable[c][o] + 1
    BY <1>5, <2>1
  <2>3. n.Opnum <= OpnumTable'[c][n.Objname]
    BY <1>5, <2>1
  <2> QED
    BY <1>4, <1>5, <2>1, <2>2, <2>3 DEF Current, isMessageUseful, NotFromTheFuture, Opnum
<1> HIDE DEF Old
<1>8. NoneOf(c, Current(c)')
  BY <1>7 DEF NoneOf, Old
<1>9. ASSUME NEW s \in Servers_names[o] PROVE NotFromTheFuture(c, s, m)'
  BY <1>1, <1>2, <1>3, <1>4, <1>5 DEF NotFromTheFuture, Opnum
<1>10. ASSUME NEW s \in Servers, NEW n, Old(s, n) \/ (n = m /\ s \in Servers_names[m.Objname])
       PROVE  NotFromTheFuture(c, s, n)'
  BY <1>2, <1>7, <1>9, <1>10
<1> QED
  BY <1>1, <1>2, <1>3, <1>4, <1>8, <1>10, FreshPhaseChannels DEF Old

LEMMA StartPutDataChannels ==
  ASSUME TypeOK, NEW c \in Clients, ChannelInvOf(c), Busy(c), Phase[c] # ABD_PUT_DATA,
         NEW tv \in TagValue, tv.Tag_var \in Tag, StartPutData(c, tv)
  PROVE  ChannelInvOf(c)' /\ NoneOf(c, Current(c)')
<1> PICK m : m = [Objname |-> Objname[c], Opnum |-> Opnum(c),
                  Phase |-> ABD_PUT_DATA, TagValue_var |-> tv]
  OBVIOUS
<1>1. Objname[c] \in Objects /\ Opnum(c) = OpnumTable[c][Objname[c]] /\ Opnum(c) \in Nat
  BY DEF TypeOK, Busy, Opnum
<1>2. /\ m \in Message /\ m.TagValue_var.Tag_var \in Tag
      /\ m.Objname = Objname[c] /\ m.Opnum = Opnum(c) /\ m.Phase = ABD_PUT_DATA
  BY <1>1 DEF Message, Phases
<1>3. SendToServers(c, m) /\ replies' = replies /\ incarnation' = incarnation
      /\ Objname' = Objname /\ OpnumTable' = OpnumTable
  BY DEF StartPutData
<1>4. responders'[c] = {} /\ num_responses'[c] = 0 /\ Phase'[c] = ABD_PUT_DATA
  BY DEF StartPutData, EnterPhase, TypeOK
<1> DEFINE Old(s, n) == \/ n \in Messages(replies[c][s])
                        \/ \E i \in Incarnations : n \in Messages(requests[c][i][s])
<1>5. ASSUME NEW s \in Servers, NEW n, Old(s, n)
      PROVE  NotFromTheFuture(c, s, n)
  BY <1>5 DEF ChannelInvOf, InOrder
<1>6. ASSUME NEW s \in Servers, NEW n, Old(s, n)
      PROVE  n \notin Current(c)' /\ NotFromTheFuture(c, s, n)'
  <2>1. NotFromTheFuture(c, s, n)
    BY <1>5, <1>6
  <2> QED
    BY <1>3, <1>4, <2>1 DEF Current, isMessageUseful, NotFromTheFuture, Opnum, Busy
<1>7. ASSUME NEW s \in Servers_names[Objname[c]] PROVE NotFromTheFuture(c, s, m)'
  BY <1>1, <1>2, <1>3, <1>4 DEF NotFromTheFuture, Opnum
<1> HIDE DEF Old
<1>8. NoneOf(c, Current(c)')
  BY <1>6 DEF NoneOf, Old
<1>9. ASSUME NEW s \in Servers, NEW n, Old(s, n) \/ (n = m /\ s \in Servers_names[m.Objname])
      PROVE  NotFromTheFuture(c, s, n)'
  BY <1>2, <1>6, <1>7, <1>9
<1> QED
  BY <1>2, <1>3, <1>4, <1>8, <1>9, FreshPhaseChannels DEF Old

\* What taking the first message out of a channel does to the invariant.
LEMMA ReceiveOne ==
  ASSUME NEW q \in Seq(Message), q # <<>>, NEW C, AtMostOne(q, C)
  PROVE  /\ Messages(Tail(q)) \subseteq Messages(q) /\ Head(q) \in Messages(q)
         /\ AtMostOne(Tail(q), C)
         /\ Head(q) \in C => Messages(Tail(q)) \cap C = {}
         /\ Messages(Tail(q)) \cap C # {} => Messages(q) \cap C # {}
BY ReceiveMessages, ReceiveAtMostOne

\* What putting a message at the end of a channel does to it.
LEMMA SendOne ==
  ASSUME NEW q \in Seq(Message), NEW m \in Message, NEW C, AtMostOne(q, C),
         m \in C => Messages(q) \cap C = {}
  PROVE  AtMostOne(Append(q, m), C)
BY SendAtMostOne

LEMMA DiscardReplyChannels ==
  ASSUME TypeOK, NEW c \in Clients, ChannelInvOf(c), NEW s \in Servers, DiscardReply(c, s)
  PROVE  ChannelInvOf(c)'
<1>1. /\ replies[c][s] \in Seq(Message) /\ replies[c][s] # <<>>
      /\ replies'[c][s] = Tail(replies[c][s])
      /\ \A x \in Servers \ {s} : replies'[c][x] = replies[c][x]
      /\ requests' = requests
  BY DEF DiscardReply, TypeOK
<1>2. /\ Objname' = Objname /\ OpnumTable' = OpnumTable /\ Phase' = Phase
      /\ incarnation' = incarnation /\ responders' = responders
      /\ num_responses' = num_responses
  BY DEF DiscardReply, phaseVars
<1>3. /\ Current(c)' = Current(c) /\ Busy(c)' = Busy(c)
      /\ \A x, m : NotFromTheFuture(c, x, m) => NotFromTheFuture(c, x, m)'
  BY <1>2, CurrentSame
<1>4. AtMostOne(replies[c][s], Current(c))
  BY DEF ChannelInvOf, OneCurrent
<1>5. ASSUME NEW x \in Servers
      PROVE  /\ Messages(replies'[c][x]) \subseteq Messages(replies[c][x])
             /\ AtMostOne(replies'[c][x], Current(c))
  <2>1. CASE x = s
    BY <1>1, <1>4, <2>1, ReceiveOne
  <2>2. CASE x # s
    BY <1>1, <2>2 DEF ChannelInvOf, OneCurrent
  <2> QED
    BY <2>1, <2>2
<1>6. InOrder(c)'
  BY <1>1, <1>3, <1>5 DEF ChannelInvOf, InOrder
<1>7. OneCurrent(c)'
  <2> SUFFICES ASSUME NEW x \in Servers
               PROVE  /\ AtMostOne(replies'[c][x], Current(c))
                      /\ Messages(replies'[c][x]) \cap Current(c) # {} => x \notin responders[c]
                      /\ \A i \in Incarnations :
                           /\ AtMostOne(requests[c][i][x], Current(c))
                           /\ Messages(requests[c][i][x]) \cap Current(c) # {} =>
                                /\ i = incarnation[c] /\ x \notin responders[c]
                                /\ Messages(replies'[c][x]) \cap Current(c) = {}
    BY <1>1, <1>2, <1>3 DEF OneCurrent
  <2>1. Messages(replies'[c][x]) \cap Current(c) # {} => Messages(replies[c][x]) \cap Current(c) # {}
    BY <1>5
  <2> QED
    BY <1>5, <2>1 DEF ChannelInvOf, OneCurrent
<1>8. Counted(c)'
  BY <1>2, <1>3 DEF ChannelInvOf, Counted
<1> QED
  BY <1>6, <1>7, <1>8 DEF ChannelInvOf

\* The server whose reply is counted was not counted before, and the reply was
\* the only message of the phase between it and the client.
LEMMA CollectReplyChannels ==
  ASSUME TypeOK, NEW c \in Clients, ChannelInvOf(c), NEW s \in Servers, CollectReply(c, s)
  PROVE  /\ ChannelInvOf(c)'
         /\ Head(replies[c][s]) \in Messages(replies[c][s]) \cap Current(c)
         /\ s \notin responders[c] /\ s \in Servers_names[Objname[c]]
         /\ Messages(replies'[c][s]) \cap Current(c) = {}
         /\ \A x \in Servers : Messages(replies'[c][x]) \subseteq Messages(replies[c][x])
<1>1. /\ replies[c][s] \in Seq(Message) /\ replies[c][s] # <<>>
      /\ replies'[c][s] = Tail(replies[c][s])
      /\ \A x \in Servers \ {s} : replies'[c][x] = replies[c][x]
      /\ requests' = requests
  BY DEF CollectReply, TypeOK
<1>2. /\ Objname' = Objname /\ OpnumTable' = OpnumTable /\ Phase' = Phase
      /\ incarnation' = incarnation
      /\ responders'[c] = responders[c] \cup {s}
      /\ num_responses'[c] = num_responses[c] + 1
      /\ num_responses[c] < quorum_size(Objname[c]) /\ Busy(c)
      /\ isMessageUseful(c, Head(replies[c][s]))
  BY DEF CollectReply, AwaitsReplies, TypeOK
<1>3. /\ Current(c)' = Current(c) /\ Busy(c)' = Busy(c)
      /\ \A x, m : NotFromTheFuture(c, x, m) => NotFromTheFuture(c, x, m)'
  BY <1>2, CurrentSame
<1>4. AtMostOne(replies[c][s], Current(c))
  BY DEF ChannelInvOf, OneCurrent
<1>5. Head(replies[c][s]) \in Messages(replies[c][s]) \cap Current(c)
  <2>1. Head(replies[c][s]) \in Messages(replies[c][s]) /\ Head(replies[c][s]) \in Message
    BY <1>1, ReceiveMessages
  <2> QED
    BY <1>2, <2>1 DEF Current
<1>6. /\ Messages(replies'[c][s]) \cap Current(c) = {}
      /\ Messages(replies'[c][s]) \subseteq Messages(replies[c][s])
  BY <1>1, <1>4, <1>5, ReceiveOne
<1>7. /\ s \notin responders[c]
      /\ \A i \in Incarnations : Messages(requests[c][i][s]) \cap Current(c) = {}
  BY <1>5 DEF ChannelInvOf, OneCurrent
<1>8. s \in Servers_names[Objname[c]]
  BY <1>2, <1>5 DEF ChannelInvOf, InOrder, NotFromTheFuture, isMessageUseful
<1>9. \A x \in Servers : Messages(replies'[c][x]) \subseteq Messages(replies[c][x])
  BY <1>1, <1>6
<1>10. InOrder(c)'
  BY <1>1, <1>3, <1>9 DEF ChannelInvOf, InOrder
<1>11. OneCurrent(c)'
  <2> SUFFICES ASSUME NEW x \in Servers
               PROVE  /\ AtMostOne(replies'[c][x], Current(c))
                      /\ Messages(replies'[c][x]) \cap Current(c) # {} => x \notin responders'[c]
                      /\ \A i \in Incarnations :
                           /\ AtMostOne(requests[c][i][x], Current(c))
                           /\ Messages(requests[c][i][x]) \cap Current(c) # {} =>
                                /\ i = incarnation[c] /\ x \notin responders'[c]
                                /\ Messages(replies'[c][x]) \cap Current(c) = {}
    BY <1>1, <1>2, <1>3 DEF OneCurrent
  <2>1. CASE x = s
    <3>1. AtMostOne(replies'[c][s], Current(c))
      BY <1>1, <1>4, ReceiveOne
    <3> QED
      BY <1>6, <1>7, <2>1, <3>1 DEF ChannelInvOf, OneCurrent
  <2>2. CASE x # s
    BY <1>1, <1>2, <2>2 DEF ChannelInvOf, OneCurrent
  <2> QED
    BY <2>1, <2>2
<1>12. Counted(c)'
  <2>1. Objname[c] \in Objects
    BY <1>2 DEF Busy, TypeOK
  <2>2. /\ responders[c] \subseteq Servers_names[Objname[c]]
        /\ num_responses[c] = Cardinality(responders[c])
    BY <1>2 DEF ChannelInvOf, Counted
  <2>3. IsFiniteSet(responders[c])
    BY <2>1, <2>2, QuorumSize, FS_Subset
  <2>4. Cardinality(responders[c] \cup {s}) = Cardinality(responders[c]) + 1
    BY <1>7, <2>3, FS_AddElement
  <2>5. num_responses[c] \in Nat /\ quorum_size(Objname[c]) \in Nat
    BY <2>1, QuorumSize DEF TypeOK
  <2>6. num_responses[c] + 1 <= quorum_size(Objname[c])
    BY <1>2, <2>5
  <2>7. quorum_size(Objname[c])' = quorum_size(Objname[c])
    BY <1>2 DEF quorum_size
  <2> QED
    BY <1>2, <1>8, <2>2, <2>4, <2>6, <2>7 DEF Counted
<1> QED
  BY <1>5, <1>6, <1>7, <1>8, <1>9, <1>10, <1>11, <1>12 DEF ChannelInvOf

\* A client between two operations has no current message.
LEMMA IdleChannels ==
  ASSUME NEW c \in Clients, ChannelInvOf(c), ~ Busy(c)', OpnumTable' = OpnumTable,
         requests' = requests,
         \A s \in Servers : Messages(replies'[c][s]) \subseteq Messages(replies[c][s])
  PROVE  ChannelInvOf(c)'
<1>1. Current(c)' = {}
  BY DEF Current
<1>2. \A s, m : NotFromTheFuture(c, s, m) => NotFromTheFuture(c, s, m)'
  BY DEF NotFromTheFuture
<1>3. InOrder(c)'
  BY <1>2 DEF ChannelInvOf, InOrder
<1>4. OneCurrent(c)'
  BY <1>1 DEF OneCurrent, AtMostOne
<1> QED
  BY <1>3, <1>4 DEF ChannelInvOf, Counted

LEMMA EndOperationChannels ==
  ASSUME TypeOK, NEW c \in Clients, ChannelInvOf(c), EndOperation(c)
  PROVE  ChannelInvOf(c)'
<1>1. ~ Busy(c)'
  BY DEF EndOperation, Busy, TypeOK
<1> QED
  BY <1>1, IdleChannels DEF EndOperation, netVars

LEMMA EmulateNewClientChannels ==
  ASSUME TypeOK, NEW c \in Clients, ChannelInvOf(c), emulateNewClient(c)
  PROVE  ChannelInvOf(c)'
<1>1. ~ Busy(c)'
  BY DEF emulateNewClient, Busy, TypeOK
<1>2. ASSUME NEW s \in Servers PROVE Messages(replies'[c][s]) = {}
  BY DEF emulateNewClient, TypeOK, Messages
<1> QED
  BY <1>1, <1>2, IdleChannels DEF emulateNewClient

\* What a server's step changes, channel by channel.
LEMMA ServedPointwise ==
  ASSUME TypeOK, NEW s \in Servers, NEW c \in Clients, NEW i \in Incarnations,
         NEW m \in Message, NEW a \in Message, Served(s, c, i, m, a)
  PROVE  /\ requests'[c][i][s] = Tail(requests[c][i][s])
         /\ \A d \in Clients, j \in Incarnations, x \in Servers :
              d # c \/ j # i \/ x # s => requests'[d][j][x] = requests[d][j][x]
         /\ i = incarnation[c] => replies'[c][s] = Append(replies[c][s], a)
         /\ \A d \in Clients, x \in Servers :
              d # c \/ x # s \/ i # incarnation[c] => replies'[d][x] = replies[d][x]
         /\ \A o \in Objects, x \in Servers :
              tagCodedElement_var'[o][x] =
                IF m.Phase = ABD_PUT_DATA /\ o = m.Objname /\ x = s
                  THEN stored(tagCodedElement_var[o][s], m.TagValue_var)
                  ELSE tagCodedElement_var[o][x]
<1>1. /\ requests' = [requests EXCEPT ![c][i][s] = Tail(requests[c][i][s])]
      /\ replies' = IF i = incarnation[c]
                      THEN [replies EXCEPT ![c][s] = Append(replies[c][s], a)]
                      ELSE replies
      /\ tagCodedElement_var' =
           IF m.Phase = ABD_PUT_DATA
             THEN [tagCodedElement_var EXCEPT ![m.Objname][s] =
                     stored(tagCodedElement_var[m.Objname][s], m.TagValue_var)]
             ELSE tagCodedElement_var
  BY DEF Served
<1>2. /\ requests \in [Clients -> [Incarnations -> [Servers -> Seq(Message)]]]
      /\ replies \in [Clients -> [Servers -> Seq(Message)]]
      /\ tagCodedElement_var \in [Objects -> [Servers -> TagValue]]
      /\ m.Objname \in Objects
  BY DEF TypeOK, Message
<1>3. /\ requests'[c][i][s] = Tail(requests[c][i][s])
      /\ \A d \in Clients, j \in Incarnations, x \in Servers :
           d # c \/ j # i \/ x # s => requests'[d][j][x] = requests[d][j][x]
  BY <1>1, <1>2
<1>4. /\ i = incarnation[c] => replies'[c][s] = Append(replies[c][s], a)
      /\ \A d \in Clients, x \in Servers :
           d # c \/ x # s \/ i # incarnation[c] => replies'[d][x] = replies[d][x]
  BY <1>1, <1>2
<1>5. \A o \in Objects, x \in Servers :
              tagCodedElement_var'[o][x] =
                IF m.Phase = ABD_PUT_DATA /\ o = m.Objname /\ x = s
                  THEN stored(tagCodedElement_var[o][s], m.TagValue_var)
                  ELSE tagCodedElement_var[o][x]
  BY <1>1, <1>2
<1> QED
  BY <1>3, <1>4, <1>5

\* The answer to a current request is current, and takes its place.
LEMMA ServerStepChannels ==
  ASSUME TypeOK, NEW s \in Servers, NEW c \in Clients, NEW i \in Incarnations,
         ServerStep(s, c, i), NEW m \in Message, NEW a \in Message,
         Served(s, c, i, m, a), ChannelInvOf(c), \A o \in Objects : Stored(o, s) \in Tag
  PROVE  /\ ChannelInvOf(c)' /\ Current(c)' = Current(c)
         /\ m \in Messages(requests[c][i][s])
         /\ a \in Current(c) <=> m \in Current(c)
         /\ \A j \in Incarnations, x \in Servers :
              Messages(requests'[c][j][x]) \subseteq Messages(requests[c][j][x])
         /\ \A x \in Servers : x # s =>
              Messages(replies'[c][x]) = Messages(replies[c][x])
         /\ Messages(replies'[c][s]) \subseteq Messages(replies[c][s]) \cup {a}
<1>1. /\ requests'[c][i][s] = Tail(requests[c][i][s])
      /\ \A j \in Incarnations, x \in Servers :
           j # i \/ x # s => requests'[c][j][x] = requests[c][j][x]
      /\ i = incarnation[c] => replies'[c][s] = Append(replies[c][s], a)
      /\ \A x \in Servers : x # s \/ i # incarnation[c] => replies'[c][x] = replies[c][x]
  BY ServedPointwise
<1>2. /\ requests[c][i][s] # <<>> /\ m = Head(requests[c][i][s])
      /\ a.Objname = m.Objname /\ a.Opnum = m.Opnum /\ a.Phase = m.Phase
      /\ m.Phase # ABD_PUT_DATA =>
           a.TagValue_var.Tag_var = tagCodedElement_var[m.Objname][s].Tag_var
      /\ m.Phase = ABD_PUT_DATA => a.TagValue_var.Tag_var = m.TagValue_var.Tag_var
  BY DEF Served
<1>3. requests[c][i][s] \in Seq(Message) /\ replies[c][s] \in Seq(Message)
  BY DEF TypeOK
<1>4. /\ Objname' = Objname /\ OpnumTable' = OpnumTable /\ Phase' = Phase
      /\ incarnation' = incarnation /\ responders' = responders
      /\ num_responses' = num_responses
  BY DEF ServerStep, phaseVars
<1>5. /\ Current(c)' = Current(c) /\ Busy(c)' = Busy(c)
      /\ \A x, n : NotFromTheFuture(c, x, n) => NotFromTheFuture(c, x, n)'
  BY <1>4, CurrentSame
<1>6. AtMostOne(requests[c][i][s], Current(c)) /\ AtMostOne(replies[c][s], Current(c))
  BY DEF ChannelInvOf, OneCurrent
<1>7. /\ m \in Messages(requests[c][i][s])
      /\ Messages(requests'[c][i][s]) \subseteq Messages(requests[c][i][s])
      /\ AtMostOne(requests'[c][i][s], Current(c))
      /\ m \in Current(c) => Messages(requests'[c][i][s]) \cap Current(c) = {}
  BY <1>1, <1>2, <1>3, <1>6, ReceiveOne
<1>8. a \in Current(c) <=> m \in Current(c)
  BY <1>2 DEF Current, isMessageUseful
<1>9. Messages(Append(replies[c][s], a)) = Messages(replies[c][s]) \cup {a}
  BY <1>3, SendMessages
<1>10. Messages(replies'[c][s]) \subseteq Messages(replies[c][s]) \cup {a}
  BY <1>1, <1>9
<1>11. NotFromTheFuture(c, s, a)
  <2>1. NotFromTheFuture(c, s, m)
    BY <1>7 DEF ChannelInvOf, InOrder
  <2>2. a.TagValue_var.Tag_var \in Tag
    <3>1. m.Objname \in Objects
      BY DEF Message
    <3> QED
      BY <1>2, <2>1, <3>1 DEF NotFromTheFuture, Stored
  <2> QED
    BY <1>2, <2>1, <2>2 DEF NotFromTheFuture
<1>12. /\ \A j \in Incarnations, x \in Servers :
              Messages(requests'[c][j][x]) \subseteq Messages(requests[c][j][x])
       /\ \A x \in Servers : x # s => Messages(replies'[c][x]) = Messages(replies[c][x])
  BY <1>1, <1>7
<1>13. InOrder(c)'
  <2> SUFFICES ASSUME NEW x \in Servers
               PROVE  /\ \A j \in Incarnations : \A n \in Messages(requests'[c][j][x]) :
                           NotFromTheFuture(c, x, n)
                      /\ \A n \in Messages(replies'[c][x]) : NotFromTheFuture(c, x, n)
    BY <1>5 DEF InOrder
  <2>1. \A j \in Incarnations : \A n \in Messages(requests'[c][j][x]) : NotFromTheFuture(c, x, n)
    BY <1>12 DEF ChannelInvOf, InOrder
  <2>2. \A n \in Messages(replies[c][x]) : NotFromTheFuture(c, x, n)
    BY DEF ChannelInvOf, InOrder
  <2>3. \A n \in Messages(replies'[c][x]) : NotFromTheFuture(c, x, n)
    BY <1>10, <1>11, <1>12, <2>2
  <2> QED
    BY <2>1, <2>3
<1>14. OneCurrent(c)'
  <2> SUFFICES ASSUME NEW x \in Servers
               PROVE  /\ AtMostOne(replies'[c][x], Current(c))
                      /\ Messages(replies'[c][x]) \cap Current(c) # {} => x \notin responders[c]
                      /\ \A j \in Incarnations :
                           /\ AtMostOne(requests'[c][j][x], Current(c))
                           /\ Messages(requests'[c][j][x]) \cap Current(c) # {} =>
                                /\ j = incarnation[c] /\ x \notin responders[c]
                                /\ Messages(replies'[c][x]) \cap Current(c) = {}
    BY <1>4, <1>5 DEF OneCurrent
  <2>1. CASE x # s
    BY <1>1, <2>1 DEF ChannelInvOf, OneCurrent
  <2>2. CASE x = s /\ m \in Current(c)
    <3>1. Messages(requests[c][i][s]) \cap Current(c) # {}
      BY <1>7, <2>2
    <3>2. /\ i = incarnation[c] /\ s \notin responders[c]
          /\ Messages(replies[c][s]) \cap Current(c) = {}
      BY <3>1 DEF ChannelInvOf, OneCurrent
    <3>3. AtMostOne(replies'[c][s], Current(c))
      <4>1. AtMostOne(Append(replies[c][s], a), Current(c))
        BY <1>3, <1>6, <3>2, SendOne
      <4> QED
        BY <1>1, <3>2, <4>1
    <3>4. ASSUME NEW j \in Incarnations
          PROVE  /\ AtMostOne(requests'[c][j][s], Current(c))
                 /\ Messages(requests'[c][j][s]) \cap Current(c) = {}
      <4>1. CASE j = i
        BY <1>7, <2>2, <4>1
      <4>2. CASE j # i
        BY <1>1, <3>2, <4>2 DEF ChannelInvOf, OneCurrent
      <4> QED
        BY <4>1, <4>2
    <3> QED
      BY <2>2, <3>2, <3>3, <3>4
  <2>3. CASE x = s /\ m \notin Current(c)
    <3>1. /\ AtMostOne(replies'[c][s], Current(c))
          /\ Messages(replies'[c][s]) \cap Current(c) = Messages(replies[c][s]) \cap Current(c)
      <4>1. CASE i = incarnation[c]
        <5>1. AtMostOne(Append(replies[c][s], a), Current(c))
          BY <1>3, <1>6, <1>8, <2>3, SendOne
        <5> QED
          BY <1>1, <1>8, <1>9, <2>3, <4>1, <5>1
      <4>2. CASE i # incarnation[c]
        BY <1>1, <1>6, <4>2
      <4> QED
        BY <4>1, <4>2
    <3>2. \A j \in Incarnations : AtMostOne(requests'[c][j][s], Current(c))
      BY <1>1, <1>7 DEF ChannelInvOf, OneCurrent
    <3> QED
      BY <1>12, <2>3, <3>1, <3>2 DEF ChannelInvOf, OneCurrent
  <2> QED
    BY <2>1, <2>2, <2>3
<1>15. Counted(c)'
  BY <1>4, <1>5 DEF ChannelInvOf, Counted, quorum_size
<1> QED
  BY <1>5, <1>7, <1>8, <1>10, <1>12, <1>13, <1>14, <1>15 DEF ChannelInvOf

\* A step of client c, or of a server on a message of c, leaves the variables
\* of the other clients alone.
LEMMA OthersUnchanged ==
  ASSUME TypeOK, NEW c \in Clients, NEW d \in Clients, d # c,
         \/ ClientStep(c)
         \/ \E s \in Servers, i \in Incarnations : ServerStep(s, c, i)
  PROVE  UNCHANGED ClientVars(d)
<1>1. ASSUME NEW m, SendToServers(c, m) PROVE requests'[d] = requests[d]
  BY <1>1 DEF SendToServers, TypeOK
<1>2. ASSUME NEW phase, NEW tv, EnterPhase(c, phase, tv)
      PROVE  UNCHANGED <<Phase[d], num_responses[d], TagValue_var[d], IsOnePhase[d], responders[d]>>
  BY <1>2 DEF EnterPhase, TypeOK
<1>3. ASSUME NEW o \in Objects, NEW phase, StartOperation(c, o, phase)
      PROVE  UNCHANGED ClientVars(d)
  <2>1. UNCHANGED <<Objname[d], OpnumTable[d], floor[d], incarnation[d], replies[d]>>
    BY <1>3 DEF StartOperation, TypeOK
  <2> QED
    BY <1>1, <1>2, <1>3, <2>1 DEF ClientVars, StartOperation
<1>4. ASSUME NEW tv, StartPutData(c, tv) PROVE UNCHANGED ClientVars(d)
  BY <1>1, <1>2, <1>4 DEF ClientVars, StartPutData, historyVars
<1>5. ASSUME NEW s \in Servers, CollectReply(c, s) \/ DiscardReply(c, s)
      PROVE  UNCHANGED ClientVars(d)
  BY <1>5 DEF ClientVars, CollectReply, DiscardReply, TypeOK, phaseVars, historyVars
<1>6. ASSUME EndOperation(c) PROVE UNCHANGED ClientVars(d)
  <2>1. Objname'[d] = Objname[d]
    BY <1>6 DEF EndOperation, TypeOK
  <2> QED
    BY <1>2, <1>6, <2>1 DEF ClientVars, EndOperation, netVars
<1>7. ASSUME emulateNewClient(c) PROVE UNCHANGED ClientVars(d)
  BY <1>7 DEF ClientVars, emulateNewClient, TypeOK, phaseVars, historyVars
<1>8. ASSUME NEW s \in Servers, NEW i \in Incarnations, ServerStep(s, c, i)
      PROVE  UNCHANGED ClientVars(d)
  <2>1. PICK m, a \in Message : Served(s, c, i, m, a)
    BY <1>8, ServerEffect
  <2>2. requests'[d] = requests[d] /\ replies'[d] = replies[d]
    BY <2>1 DEF Served, TypeOK
  <2> QED
    BY <1>8, <2>2 DEF ClientVars, ServerStep, phaseVars, historyVars
<1> QED
  BY <1>3, <1>4, <1>5, <1>6, <1>7, <1>8 DEF ClientStep, StartRead, StartWrite,
     WriterPutsData, ReaderPutsData, ReadInOnePhase, PutDataCompletes

\* A client in its phase goes on with the pair it has; a client between two
\* operations owns nothing that a new operation keeps.
LEMMA ChannelInductive ==
  ASSUME IInv, [Next]_vars
  PROVE  ChannelInv'
<1> USE DEF IInv
<1>1. ASSUME UNCHANGED <<Objname, OpnumTable, Phase, incarnation, phaseVars, requests,
                         replies, floor>>
      PROVE  ChannelInv'
  BY <1>1, ChannelFrame DEF ChannelInv, ClientVars, phaseVars
<1>2. ASSUME NEW c \in Clients, ChannelInvOf(c)',
             \/ ClientStep(c)
             \/ \E s \in Servers, i \in Incarnations : ServerStep(s, c, i)
      PROVE  ChannelInv'
  <2>1. ASSUME NEW d \in Clients, d # c PROVE ChannelInvOf(d)'
    <3>1. UNCHANGED ClientVars(d)
      BY <1>2, <2>1, OthersUnchanged
    <3> QED
      BY <3>1, ChannelFrame DEF ChannelInv
  <2> QED
    BY <1>2, <2>1 DEF ChannelInv
<1>3. ASSUME NEW c \in Clients, ClientStep(c) PROVE ChannelInvOf(c)'
  <2>0. ChannelInvOf(c)
    BY DEF ChannelInv
  <2>1. ASSUME NEW o \in Objects, StartRead(c, o) \/ StartWrite(c, o)
        PROVE  ChannelInvOf(c)'
    BY <2>0, <2>1, StartOperationChannels DEF StartRead, StartWrite, Phases
  <2>2. ASSUME NEW s \in Servers, CollectReply(c, s) \/ DiscardReply(c, s)
        PROVE  ChannelInvOf(c)'
    BY <2>0, <2>2, CollectReplyChannels, DiscardReplyChannels
  <2>3. CASE WriterPutsData(c)
    <3>1. PICK tv : tv = [Tag_var |-> newTag(c), Value |-> <<c, Opnum(c)>>]
      OBVIOUS
    <3>2. Busy(c) /\ Phase[c] # ABD_PUT_DATA /\ StartPutData(c, tv)
      BY <2>3, <3>1 DEF WriterPutsData, HasQuorum, ABD_GET_TAG, ABD_PUT_DATA
    <3>3. tv \in TagValue /\ tv.Tag_var \in Tag
      BY <2>3, <3>1, <3>2, NewTagType DEF WriterPutsData
    <3> QED
      BY <2>0, <3>2, <3>3, StartPutDataChannels
  <2>4. CASE ReaderPutsData(c)
    <3>1. PICK tv : tv = TagValue_var[c]
      OBVIOUS
    <3>2. Busy(c) /\ Phase[c] # ABD_PUT_DATA /\ StartPutData(c, tv) /\ HasQuorum(c)
      BY <2>4, <3>1 DEF ReaderPutsData, HasQuorum, ABD_GET_DATA, ABD_PUT_DATA
    <3>3. tv \in TagValue /\ tv.Tag_var \in Tag
      BY <3>1, <3>2, QuorumTag DEF TypeOK
    <3> QED
      BY <2>0, <3>2, <3>3, StartPutDataChannels
  <2>5. CASE ReadInOnePhase(c) \/ PutDataCompletes(c)
    BY <2>0, <2>5, EndOperationChannels DEF ReadInOnePhase, PutDataCompletes
  <2>6. CASE emulateNewClient(c)
    BY <2>0, <2>6, EmulateNewClientChannels
  <2> QED
    BY <1>3, <2>1, <2>2, <2>3, <2>4, <2>5, <2>6 DEF ClientStep
<1>4. ASSUME NEW s \in Servers, NEW c \in Clients, NEW i \in Incarnations,
             ServerStep(s, c, i)
      PROVE  ChannelInvOf(c)'
  <2>1. PICK m, a \in Message : Served(s, c, i, m, a)
    BY <1>4, ServerEffect
  <2>2. \A o \in Objects : Stored(o, s) \in Tag
    BY DEF ValueInv, ServerValues
  <2>3. ChannelInvOf(c)
    BY DEF ChannelInv
  <2> QED
    BY <1>4, <2>1, <2>2, <2>3, ServerStepChannels
<1>5. ASSUME NEW s \in Servers, KillServer(s) PROVE ChannelInv'
  BY <1>1, <1>5 DEF KillServer, netVars, historyVars
<1>6. ASSUME AllDone \/ UNCHANGED vars PROVE ChannelInv'
  BY <1>1, <1>6 DEF AllDone, vars, phaseVars
<1> QED
  BY <1>2, <1>3, <1>4, <1>5, <1>6 DEF Next

-----------------------------------------------------------------------------
(* What was written stays written *)

\* Whatever was written stays so.
WrittenGrows == \A o \in Objects : \A tv : IsWritten(o, tv) => IsWritten(o, tv)'

\* It is enough that no writer that puts forgets its pair without logging it.
LEMMA WrittenGrowsIf ==
  ASSUME \A o \in Objects : log[o] \subseteq log'[o],
         \A w \in Writers : Objname[w] \in Objects /\ Phase[w] = ABD_PUT_DATA =>
           \/ UNCHANGED <<Objname[w], Phase[w], TagValue_var[w]>>
           \/ \E e \in log'[Objname[w]] : e.client = w /\ e.TagValue_var = TagValue_var[w]
  PROVE  WrittenGrows
<1> SUFFICES ASSUME NEW o \in Objects, NEW tv, IsWritten(o, tv)
             PROVE  IsWritten(o, tv)'
  BY DEF WrittenGrows
<1>1. CASE tv = InitialTagValue
  BY <1>1 DEF IsWritten, InitialTagValue
<1>2. CASE \E e \in log[o] : e.client \in Writers /\ e.TagValue_var = tv
  BY <1>2 DEF IsWritten
<1>3. ASSUME NEW w \in Writers, Objname[w] = o, Phase[w] = ABD_PUT_DATA, TagValue_var[w] = tv
      PROVE  IsWritten(o, tv)'
  BY <1>3 DEF IsWritten
<1> QED
  BY <1>1, <1>2, <1>3 DEF IsWritten

LEMMA StepWrittenGrows ==
  ASSUME TypeOK, [Next]_vars
  PROVE  WrittenGrows
<1>0. \A w \in Writers : w \in Clients
  BY DEF Clients
<1>1. ASSUME NEW c \in Clients, ~ Busy(c) \/ Phase[c] # ABD_PUT_DATA, log' = log,
             \A d \in Clients \ {c} : UNCHANGED <<Objname[d], Phase[d], TagValue_var[d]>>
      PROVE  WrittenGrows
  BY <1>0, <1>1, WrittenGrowsIf, ObjectsAssumption DEF Busy
<1>2. ASSUME log' = log, UNCHANGED <<Objname, Phase, TagValue_var>>
      PROVE  WrittenGrows
  BY <1>2, WrittenGrowsIf
<1>3. ASSUME NEW c \in Clients, ClientStep(c) PROVE WrittenGrows
  <2>0. \A d \in Clients \ {c} : UNCHANGED <<Objname[d], Phase[d], TagValue_var[d]>>
    BY <1>3, OthersUnchanged DEF ClientVars
  <2>1. ASSUME NEW o \in Objects, StartRead(c, o) \/ StartWrite(c, o) PROVE WrittenGrows
    BY <1>1, <2>0, <2>1 DEF StartRead, StartWrite, StartOperation
  <2>2. ASSUME NEW s \in Servers, CollectReply(c, s) PROVE WrittenGrows
    <3>1. CASE Phase[c] = ABD_PUT_DATA
      BY <1>2, <2>2, <3>1 DEF CollectReply, historyVars
    <3>2. CASE Phase[c] # ABD_PUT_DATA
      BY <1>1, <2>0, <2>2, <3>2 DEF CollectReply, historyVars
    <3> QED
      BY <3>1, <3>2
  <2>3. ASSUME NEW s \in Servers, DiscardReply(c, s) PROVE WrittenGrows
    BY <1>2, <2>3 DEF DiscardReply, historyVars, phaseVars
  <2>4. CASE WriterPutsData(c) \/ ReaderPutsData(c)
    BY <1>1, <2>0, <2>4 DEF WriterPutsData, ReaderPutsData, StartPutData, historyVars,
       ABD_GET_TAG, ABD_GET_DATA, ABD_PUT_DATA
  <2>5. CASE ReadInOnePhase(c) \/ PutDataCompletes(c)
    <3>1. Objname[c] \in Objects /\ EndOperation(c)
      BY <2>5 DEF ReadInOnePhase, PutDataCompletes, HasQuorum, Busy, TypeOK
    <3>2. log' = [log EXCEPT ![Objname[c]] = log[Objname[c]] \cup
             {[client |-> c, floor |-> floor[c], TagValue_var |-> TagValue_var[c]]}]
      BY <3>1 DEF EndOperation
    <3>3. \A o \in Objects : log[o] \subseteq log'[o]
      BY <3>1, <3>2 DEF TypeOK
    <3>4. \E e \in log'[Objname[c]] : e.client = c /\ e.TagValue_var = TagValue_var[c]
      <4>1. [client |-> c, floor |-> floor[c], TagValue_var |-> TagValue_var[c]] \in log'[Objname[c]]
        BY <3>1, <3>2 DEF TypeOK
      <4> QED
        BY <4>1
    <3> QED
      BY <1>0, <2>0, <3>3, <3>4, WrittenGrowsIf
  <2>6. CASE emulateNewClient(c)
    BY <1>2, <2>6 DEF emulateNewClient, historyVars, phaseVars
  <2> QED
    BY <1>3, <2>1, <2>2, <2>3, <2>4, <2>5, <2>6 DEF ClientStep
<1>4. ASSUME NEW s \in Servers, NEW c \in Clients, NEW i \in Incarnations,
             ServerStep(s, c, i)
      PROVE  WrittenGrows
  BY <1>2, <1>4 DEF ServerStep, historyVars, phaseVars
<1>5. ASSUME NEW s \in Servers, KillServer(s) PROVE WrittenGrows
  BY <1>2, <1>5 DEF KillServer, historyVars, phaseVars
<1>6. ASSUME AllDone \/ UNCHANGED vars PROVE WrittenGrows
  BY <1>2, <1>6 DEF AllDone, vars
<1> QED
  BY <1>3, <1>4, <1>5, <1>6 DEF Next

-----------------------------------------------------------------------------
(* Values *)

LEMMA MessagesTyped ==
  ASSUME NEW q \in Seq(Message), NEW m \in Messages(q)
  PROVE  m \in Message /\ m.Objname \in Objects /\ m.TagValue_var \in TagValue
<1>1. PICK k \in 1..Len(q) : m = q[k]
  BY DEF Messages
<1>2. m \in Message
  BY <1>1
<1> QED
  BY <1>2 DEF Message

LEMMA MajoritiesMeet ==
  ASSUME NEW o \in Objects, NEW P \in Majorities(o), NEW Q \in Majorities(o)
  PROVE  \E s \in P : s \in Q /\ s \in Servers
<1>1. IsFiniteSet(Servers_names[o]) /\ Servers_names[o] \subseteq Servers
  BY QuorumSize
<1>2. /\ P \subseteq Servers_names[o] /\ Q \subseteq Servers_names[o]
      /\ Cardinality(P) >= (Cardinality(Servers_names[o]) + 2) \div 2
      /\ Cardinality(Q) >= (Cardinality(Servers_names[o]) + 2) \div 2
  BY DEF Majorities, quorum_size
<1>3. \E s \in P : s \in Q
  BY <1>1, <1>2, MajoritiesIntersect
<1> QED
  BY <1>1, <1>2, <1>3

\* A quorum of answers to a query reaches the floor of the operation: it meets
\* the majority that holds the floor.
LEMMA QuorumAboveFloor ==
  ASSUME IInv, NEW c \in Clients, HasQuorum(c)
  PROVE  AtLeast(TagValue_var[c].Tag_var, floor[c])
<1>1. Busy(c)
  BY DEF HasQuorum
<1>2. CASE Phase[c] = ABD_PUT_DATA
  BY <1>1, <1>2 DEF IInv, OrderInv, OrderInvOf, PutInv
<1>3. CASE Phase[c] # ABD_PUT_DATA
  <2>1. PICK Q \in Majorities(Objname[c]) : \A s \in Q : FloorAnswered(c, s)
    BY <1>1, <1>3 DEF IInv, OrderInv, OrderInvOf, QueryInv
  <2>2. PICK s \in responders[c] : s \in Q
    BY QuorumTag, MajoritiesMeet
  <2> QED
    BY <2>1, <2>2 DEF FloorAnswered
<1> QED
  BY <1>2, <1>3

\* A client whose variables do not change keeps its part of the invariant.
LEMMA ValueFrame ==
  ASSUME TypeOK, NEW c \in Clients, ValueInvOf(c), UNCHANGED ClientVars(c), WrittenGrows
  PROVE  ValueInvOf(c)'
<1>1. Busy(c)' = Busy(c) /\ (Busy(c) => Objname[c] \in Objects)
  BY DEF ClientVars, Busy, TypeOK
<1>2. PhaseOfKind(c)'
  BY <1>1 DEF ValueInvOf, PhaseOfKind, ClientVars, LowestTagValue
<1>3. WriterTag(c)'
  BY <1>1 DEF ValueInvOf, WriterTag, ClientVars
<1>4. ASSUME NEW s \in Servers
      PROVE  /\ \A i \in Incarnations : \A m \in Messages(requests'[c][i][s]) :
                   m.Phase = ABD_PUT_DATA => IsWritten(m.Objname, m.TagValue_var)'
             /\ \A m \in Messages(replies'[c][s]) :
                   m.Phase = ABD_GET_DATA => IsWritten(m.Objname, m.TagValue_var)'
  <2>1. \A q \in Seq(Message) : \A m \in Messages(q) : m.Objname \in Objects
    BY MessagesTyped
  <2>2. /\ replies[c][s] \in Seq(Message)
        /\ \A i \in Incarnations : requests[c][i][s] \in Seq(Message)
    BY DEF TypeOK
  <2> QED
    BY <2>1, <2>2 DEF ValueInvOf, PairsTravelWritten, ClientVars, WrittenGrows
<1>5. PairsTravelWritten(c)'
  BY <1>1, <1>4 DEF ValueInvOf, PairsTravelWritten, ClientVars, WrittenGrows
<1> QED
  BY <1>2, <1>3, <1>5 DEF ValueInvOf

\* The messages a client sees after a step it takes: those that were there,
\* the one it sends and, after a server's step, the answer.
LEMMA PairsTravelIf ==
  ASSUME TypeOK, NEW c \in Clients, PairsTravelWritten(c), WrittenGrows,
         \A s \in Servers :
           /\ \A i \in Incarnations : \A m \in Messages(requests'[c][i][s]) :
                \/ m \in Messages(requests[c][i][s])
                \/ m.Phase = ABD_PUT_DATA => IsWritten(m.Objname, m.TagValue_var)'
           /\ \A m \in Messages(replies'[c][s]) :
                \/ m \in Messages(replies[c][s])
                \/ m.Phase = ABD_GET_DATA => IsWritten(m.Objname, m.TagValue_var)',
         c \in Readers /\ Busy(c)' /\ (Phase'[c] = ABD_PUT_DATA \/ responders'[c] # {})
           => IsWritten(Objname[c], TagValue_var[c])'
  PROVE  PairsTravelWritten(c)'
<1>1. \A q \in Seq(Message) : \A m \in Messages(q) : m.Objname \in Objects
  BY MessagesTyped
<1>2. \A s \in Servers :
        /\ replies[c][s] \in Seq(Message)
        /\ \A i \in Incarnations : requests[c][i][s] \in Seq(Message)
  BY DEF TypeOK
<1>3. ASSUME NEW s \in Servers, NEW i \in Incarnations, NEW m \in Messages(requests'[c][i][s]),
             m.Phase = ABD_PUT_DATA
      PROVE  IsWritten(m.Objname, m.TagValue_var)'
  BY <1>1, <1>2, <1>3 DEF PairsTravelWritten, WrittenGrows
<1>4. ASSUME NEW s \in Servers, NEW m \in Messages(replies'[c][s]), m.Phase = ABD_GET_DATA
      PROVE  IsWritten(m.Objname, m.TagValue_var)'
  BY <1>1, <1>2, <1>4 DEF PairsTravelWritten, WrittenGrows
<1> QED
  BY <1>3, <1>4 DEF PairsTravelWritten

\* What SendToServers may add to the request channels of its client.
LEMMA SentMessages ==
  ASSUME TypeOK, NEW c \in Clients, NEW m \in Message, SendToServers(c, m),
         NEW i \in Incarnations, NEW s \in Servers, NEW n \in Messages(requests'[c][i][s])
  PROVE  n \in Messages(requests[c][i][s]) \/ n = m
<1>1. requests[c][i][s] \in Seq(Message)
  BY DEF TypeOK
<1>2. Messages(Append(requests[c][i][s], m)) = Messages(requests[c][i][s]) \cup {m}
  BY <1>1, SendMessages
<1>3. requests'[c][i][s] \in {requests[c][i][s], Append(requests[c][i][s], m)}
  BY SendEffect
<1> QED
  BY <1>2, <1>3

LEMMA StartOperationValues ==
  ASSUME TypeOK, NEW c \in Clients, ValueInvOf(c), WrittenGrows, NEW o \in Objects,
         NEW phase \in Phases, StartOperation(c, o, phase), phase # ABD_PUT_DATA,
         c \in Writers => phase # ABD_GET_DATA, c \in Readers => phase # ABD_GET_TAG
  PROVE  ValueInvOf(c)'
<1> PICK m : m = [Objname |-> o, Opnum |-> OpnumTable[c][o] + 1, Phase |-> phase,
                  TagValue_var |-> [Tag_var |-> [Version_num |-> 0, Client_id |-> 0],
                                    Value |-> NoValue]]
  OBVIOUS
<1>1. m \in Message /\ m.Phase = phase
  BY DataTypes DEF Message, TypeOK
<1>2. SendToServers(c, m) /\ replies' = replies
  BY DEF StartOperation
<1>3. responders'[c] = {} /\ TagValue_var'[c] = LowestTagValue /\ Phase'[c] = phase
  BY DEF StartOperation, EnterPhase, TypeOK
<1>4. PhaseOfKind(c)'
  BY <1>3 DEF PhaseOfKind, LowestTagValue
<1>5. WriterTag(c)'
  BY <1>3 DEF WriterTag
<1>6. PairsTravelWritten(c)'
  <2>1. ASSUME NEW i \in Incarnations, NEW s \in Servers, NEW n \in Messages(requests'[c][i][s])
        PROVE  n \in Messages(requests[c][i][s]) \/ n.Phase # ABD_PUT_DATA
    BY <1>1, <1>2, SentMessages
  <2> QED
    BY <1>2, <1>3, <2>1, PairsTravelIf DEF ValueInvOf
<1> QED
  BY <1>4, <1>5, <1>6 DEF ValueInvOf

LEMMA StartPutDataValues ==
  ASSUME TypeOK, NEW c \in Clients, ValueInvOf(c), WrittenGrows, Busy(c),
         NEW tv \in TagValue, tv.Tag_var \in Tag, StartPutData(c, tv),
         c \in Readers => IsWritten(Objname[c], tv),
         c \in Writers => /\ isGreaterTag(tv.Tag_var, floor[c])
                          /\ \E i \in Incarnations : tv.Tag_var.Client_id = NameTag[c][i]
  PROVE  ValueInvOf(c)'
<1> PICK m : m = [Objname |-> Objname[c], Opnum |-> Opnum(c),
                  Phase |-> ABD_PUT_DATA, TagValue_var |-> tv]
  OBVIOUS
<1>1. Objname[c] \in Objects /\ Opnum(c) \in Nat
  BY DEF TypeOK, Busy, Opnum
<1>2. m \in Message /\ m.Objname = Objname[c] /\ m.TagValue_var = tv
  BY <1>1 DEF Message, Phases
<1>3. SendToServers(c, m) /\ replies' = replies /\ Objname' = Objname /\ floor' = floor
  BY DEF StartPutData, historyVars
<1>4. responders'[c] = {} /\ TagValue_var'[c] = tv /\ Phase'[c] = ABD_PUT_DATA
  BY DEF StartPutData, EnterPhase, TypeOK
<1>5. PhaseOfKind(c)'
  BY <1>4 DEF PhaseOfKind, ABD_PUT_DATA, ABD_GET_DATA, ABD_GET_TAG
<1>6. WriterTag(c)'
  BY <1>3, <1>4 DEF WriterTag
<1>7. IsWritten(Objname[c], tv)'
  <2>1. CASE c \in Writers
    BY <1>3, <1>4, <2>1 DEF IsWritten
  <2>2. CASE c \in Readers
    BY <1>1, <1>3, <2>2 DEF WrittenGrows
  <2> QED
    BY <2>1, <2>2 DEF Clients
<1>8. PairsTravelWritten(c)'
  <2>1. ASSUME NEW i \in Incarnations, NEW s \in Servers, NEW n \in Messages(requests'[c][i][s])
        PROVE  n \in Messages(requests[c][i][s]) \/ IsWritten(n.Objname, n.TagValue_var)'
    BY <1>2, <1>3, <1>7, SentMessages
  <2> QED
    BY <1>3, <1>4, <1>7, <2>1, PairsTravelIf DEF ValueInvOf
<1> QED
  BY <1>5, <1>6, <1>8 DEF ValueInvOf

LEMMA DiscardReplyValues ==
  ASSUME TypeOK, NEW c \in Clients, ValueInvOf(c), WrittenGrows, NEW s \in Servers,
         DiscardReply(c, s)
  PROVE  ValueInvOf(c)'
<1>1. /\ requests' = requests /\ Objname' = Objname /\ Phase' = Phase
      /\ TagValue_var' = TagValue_var /\ responders' = responders /\ floor' = floor
  BY DEF DiscardReply, phaseVars, historyVars
<1>2. Busy(c)' = Busy(c) /\ (Busy(c) => Objname[c] \in Objects)
  BY <1>1 DEF Busy, TypeOK
<1>3. \A x \in Servers : Messages(replies'[c][x]) \subseteq Messages(replies[c][x])
  <2>1. /\ replies[c][s] \in Seq(Message) /\ replies[c][s] # <<>>
        /\ replies'[c][s] = Tail(replies[c][s])
        /\ \A x \in Servers \ {s} : replies'[c][x] = replies[c][x]
    BY DEF DiscardReply, TypeOK
  <2>2. Messages(replies'[c][s]) \subseteq Messages(replies[c][s])
    BY <2>1, ReceiveMessages
  <2> QED
    BY <2>1, <2>2
<1>4. PhaseOfKind(c)' /\ WriterTag(c)'
  BY <1>1, <1>2 DEF ValueInvOf, PhaseOfKind, WriterTag, LowestTagValue
<1>5. PairsTravelWritten(c)'
  <2>1. c \in Readers /\ Busy(c)' /\ (Phase'[c] = ABD_PUT_DATA \/ responders'[c] # {})
           => IsWritten(Objname[c], TagValue_var[c])'
    BY <1>1, <1>2 DEF ValueInvOf, PairsTravelWritten, WrittenGrows
  <2> QED
    BY <1>1, <1>3, <2>1, PairsTravelIf DEF ValueInvOf
<1> QED
  BY <1>4, <1>5 DEF ValueInvOf

\* Counting a reply: in a put nothing but the count changes; in a query the
\* pair becomes that of the reply, or stays because it is as large.
LEMMA CollectReplyEffect ==
  ASSUME TypeOK, NEW c \in Clients, ChannelInvOf(c), PhaseOfKind(c), NEW s \in Servers,
         CollectReply(c, s), NEW m, m = Head(replies[c][s])
  PROVE  /\ m \in Message /\ m \in Messages(replies[c][s]) \cap Current(c)
         /\ m.Objname = Objname[c] /\ m.Phase = Phase[c] /\ m.TagValue_var.Tag_var \in Tag
         /\ responders'[c] = responders[c] \cup {s} /\ Busy(c)
         /\ UNCHANGED <<Objname, Phase, floor, requests, tagCodedElement_var>>
         /\ Phase[c] = ABD_PUT_DATA => TagValue_var'[c] = TagValue_var[c]
         /\ Phase[c] # ABD_PUT_DATA =>
              /\ TagValue_var'[c] \in {m.TagValue_var, TagValue_var[c]}
              /\ TagValue_var'[c].Tag_var \in Tag
              /\ AtLeast(TagValue_var'[c].Tag_var, m.TagValue_var.Tag_var)
              /\ AtLeast(TagValue_var'[c].Tag_var, TagValue_var[c].Tag_var)
              /\ responders[c] = {} => TagValue_var'[c] = m.TagValue_var
              /\ IsOnePhase'[c] /\ responders[c] # {} =>
                   IsOnePhase[c] /\ TagValue_var'[c].Tag_var = TagValue_var[c].Tag_var
              /\ IsOnePhase'[c] => TagValue_var'[c].Tag_var = m.TagValue_var.Tag_var
<1>1. /\ m \in Messages(replies[c][s]) \cap Current(c)
      /\ m \in Message /\ NotFromTheFuture(c, s, m)
  BY CollectReplyChannels DEF ChannelInvOf, InOrder, Current
<1>2. /\ m.Objname = Objname[c] /\ m.Phase = Phase[c] /\ m.TagValue_var.Tag_var \in Tag
  BY <1>1 DEF Current, isMessageUseful, NotFromTheFuture
<1>3. /\ responders'[c] = responders[c] \cup {s} /\ Busy(c)
      /\ UNCHANGED <<Objname, Phase, floor, requests, tagCodedElement_var>>
  BY DEF CollectReply, AwaitsReplies, TypeOK, historyVars, serverVars
<1>4. Phase[c] = ABD_PUT_DATA => TagValue_var'[c] = TagValue_var[c]
  BY DEF CollectReply
<1>5. ASSUME Phase[c] # ABD_PUT_DATA
      PROVE  /\ TagValue_var'[c] \in {m.TagValue_var, TagValue_var[c]}
             /\ TagValue_var'[c].Tag_var \in Tag
             /\ AtLeast(TagValue_var'[c].Tag_var, m.TagValue_var.Tag_var)
             /\ AtLeast(TagValue_var'[c].Tag_var, TagValue_var[c].Tag_var)
             /\ responders[c] = {} => TagValue_var'[c] = m.TagValue_var
             /\ IsOnePhase'[c] /\ responders[c] # {} =>
                  IsOnePhase[c] /\ TagValue_var'[c].Tag_var = TagValue_var[c].Tag_var
             /\ IsOnePhase'[c] => TagValue_var'[c].Tag_var = m.TagValue_var.Tag_var
  <2>1. /\ TagValue_var'[c] = IF IsSmallerThan(TagValue_var[c].Tag_var, m.TagValue_var.Tag_var)
                               THEN m.TagValue_var ELSE TagValue_var[c]
        /\ IsOnePhase'[c] = (/\ IsOnePhase[c]
                             /\ num_responses[c] > 0 =>
                                  m.TagValue_var.Tag_var = TagValue_var[c].Tag_var)
    BY <1>5 DEF CollectReply, TypeOK
  <2>2. IF responders[c] = {} THEN TagValue_var[c] = LowestTagValue
                               ELSE TagValue_var[c].Tag_var \in Tag
    BY <1>3, <1>5 DEF PhaseOfKind
  <2>3. responders[c] # {} => num_responses[c] > 0
    <3>1. Objname[c] \in Objects
      BY <1>3 DEF Busy, TypeOK
    <3>2. responders[c] \subseteq Servers_names[Objname[c]] /\ num_responses[c] = Cardinality(responders[c])
      BY <1>3 DEF ChannelInvOf, Counted
    <3>3. IsFiniteSet(responders[c])
      BY <3>1, <3>2, QuorumSize, FS_Subset
    <3>4. num_responses[c] \in Nat /\ (num_responses[c] = 0 <=> responders[c] = {})
      BY <3>2, <3>3, FS_EmptySet, FS_CardinalityType
    <3> QED
      BY <3>4
  <2>4. m.TagValue_var.Tag_var \in AnyTag /\ TagValue_var[c].Tag_var \in AnyTag
    BY <1>2, InitialTagIsTag DEF TypeOK, TagValue
  <2>5. IsSmallerThan(LowestTag, m.TagValue_var.Tag_var)
    BY <1>2 DEF IsSmallerThan, LowestTag, Tag
  <2>6. CASE responders[c] = {}
    <3>1. TagValue_var[c].Tag_var = LowestTag
      BY <2>2, <2>6 DEF LowestTagValue
    <3>2. TagValue_var'[c] = m.TagValue_var
      BY <2>1, <2>5, <3>1
    <3>3. AtLeast(m.TagValue_var.Tag_var, LowestTag)
      BY <2>4, <2>5, <3>1, TagTotal, TagComparisonsAgree
    <3> QED
      BY <1>2, <2>4, <2>6, <3>1, <3>2, <3>3, TagTotal
  <2>7. CASE responders[c] # {}
    <3>1. AtLeast(TagValue_var'[c].Tag_var, m.TagValue_var.Tag_var)
          /\ AtLeast(TagValue_var'[c].Tag_var, TagValue_var[c].Tag_var)
      <4>1. CASE IsSmallerThan(TagValue_var[c].Tag_var, m.TagValue_var.Tag_var)
        BY <2>1, <2>4, <4>1, TagTotal, TagComparisonsAgree
      <4>2. CASE ~ IsSmallerThan(TagValue_var[c].Tag_var, m.TagValue_var.Tag_var)
        BY <2>1, <2>4, <4>2, TagTotal, TagComparisonsAgree
      <4> QED
        BY <4>1, <4>2
    <3>2. IsOnePhase'[c] => /\ IsOnePhase[c]
                            /\ m.TagValue_var.Tag_var = TagValue_var[c].Tag_var
      BY <2>1, <2>3, <2>7
    <3>3. TagValue_var'[c] \in {m.TagValue_var, TagValue_var[c]}
      BY <2>1
    <3> QED
      BY <1>2, <2>2, <2>7, <3>1, <3>2, <3>3
  <2> QED
    BY <2>6, <2>7
<1> QED
  BY <1>1, <1>2, <1>3, <1>4, <1>5

LEMMA CollectReplyValues ==
  ASSUME TypeOK, NEW c \in Clients, ChannelInvOf(c), ValueInvOf(c), WrittenGrows,
         NEW s \in Servers, CollectReply(c, s)
  PROVE  ValueInvOf(c)'
<1> PICK m : m = Head(replies[c][s])
  OBVIOUS
<1>0. PhaseOfKind(c)
  BY DEF ValueInvOf
<1>1. /\ m \in Message /\ m \in Messages(replies[c][s])
      /\ m.Objname = Objname[c] /\ m.Phase = Phase[c]
      /\ responders'[c] = responders[c] \cup {s} /\ Busy(c)
      /\ UNCHANGED <<Objname, Phase, floor, requests>>
  BY <1>0, CollectReplyEffect
<1>2. Phase[c] = ABD_PUT_DATA => TagValue_var'[c] = TagValue_var[c]
  BY <1>0, CollectReplyEffect
<1>3. Phase[c] # ABD_PUT_DATA =>
        /\ TagValue_var'[c] \in {m.TagValue_var, TagValue_var[c]}
        /\ TagValue_var'[c].Tag_var \in Tag
        /\ responders[c] = {} => TagValue_var'[c] = m.TagValue_var
  BY <1>0, CollectReplyEffect
<1>4. Busy(c)' /\ Objname[c] \in Objects /\ responders'[c] # {}
  BY <1>1 DEF Busy, TypeOK
<1>5. PhaseOfKind(c)'
  BY <1>0, <1>1, <1>2, <1>3, <1>4 DEF PhaseOfKind
<1>6. WriterTag(c)'
  BY <1>1, <1>2 DEF ValueInvOf, WriterTag
<1>7. ASSUME c \in Readers PROVE IsWritten(Objname[c], TagValue_var[c])'
  <2>1. IsWritten(Objname[c], TagValue_var'[c])
    <3>1. CASE Phase[c] = ABD_PUT_DATA
      BY <1>1, <1>2, <1>7, <3>1 DEF ValueInvOf, PairsTravelWritten
    <3>2. CASE Phase[c] # ABD_PUT_DATA
      <4>1. Phase[c] = ABD_GET_DATA
        BY <1>0, <1>1, <1>7, <3>2 DEF PhaseOfKind, TypeOK, Phases
      <4>2. IsWritten(Objname[c], m.TagValue_var)
        BY <1>1, <4>1 DEF ValueInvOf, PairsTravelWritten
      <4>3. responders[c] # {} => IsWritten(Objname[c], TagValue_var[c])
        BY <1>1, <1>7 DEF ValueInvOf, PairsTravelWritten
      <4> QED
        BY <1>3, <3>2, <4>2, <4>3
    <3> QED
      BY <3>1, <3>2
  <2>2. PICK tv : tv = TagValue_var'[c]
    OBVIOUS
  <2>3. IsWritten(Objname[c], tv)'
    BY <1>1, <1>4, <2>1, <2>2 DEF WrittenGrows
  <2> QED
    BY <2>2, <2>3 DEF IsWritten
<1>8. \A x \in Servers : Messages(replies'[c][x]) \subseteq Messages(replies[c][x])
  BY CollectReplyChannels
<1>9. PairsTravelWritten(c)'
  BY <1>1, <1>7, <1>8, PairsTravelIf DEF ValueInvOf
<1> QED
  BY <1>5, <1>6, <1>9 DEF ValueInvOf

LEMMA IdleValues ==
  ASSUME TypeOK, NEW c \in Clients, ValueInvOf(c), WrittenGrows, ~ Busy(c)',
         requests' = requests,
         \A s \in Servers : Messages(replies'[c][s]) \subseteq Messages(replies[c][s])
  PROVE  ValueInvOf(c)'
<1>1. PhaseOfKind(c)' /\ WriterTag(c)'
  BY DEF PhaseOfKind, WriterTag
<1>2. PairsTravelWritten(c)'
  BY PairsTravelIf DEF ValueInvOf
<1> QED
  BY <1>1, <1>2 DEF ValueInvOf

LEMMA EndOperationValues ==
  ASSUME TypeOK, NEW c \in Clients, ValueInvOf(c), WrittenGrows, EndOperation(c)
  PROVE  ValueInvOf(c)'
<1>1. ~ Busy(c)'
  BY DEF EndOperation, Busy, TypeOK
<1> QED
  BY <1>1, IdleValues DEF EndOperation, netVars

LEMMA EmulateNewClientValues ==
  ASSUME TypeOK, NEW c \in Clients, ValueInvOf(c), WrittenGrows, emulateNewClient(c)
  PROVE  ValueInvOf(c)'
<1>1. ~ Busy(c)'
  BY DEF emulateNewClient, Busy, TypeOK
<1>2. ASSUME NEW s \in Servers PROVE Messages(replies'[c][s]) = {}
  BY DEF emulateNewClient, TypeOK, Messages
<1> QED
  BY <1>1, <1>2, IdleValues DEF emulateNewClient

LEMMA ServerStepValues ==
  ASSUME IInv, WrittenGrows, NEW s \in Servers, NEW c \in Clients, NEW i \in Incarnations,
         ServerStep(s, c, i)
  PROVE  ValueInvOf(c)' /\ ServerValues'
<1> USE DEF IInv
<1>1. PICK m, a \in Message : Served(s, c, i, m, a)
  BY ServerEffect
<1>2. ValueInvOf(c) /\ ChannelInvOf(c) /\ ServerValues
  BY DEF ValueInv, ChannelInv
<1>3. \A o \in Objects : Stored(o, s) \in Tag
  BY <1>2 DEF ServerValues
<1>4. /\ m \in Messages(requests[c][i][s])
      /\ \A j \in Incarnations, x \in Servers :
           Messages(requests'[c][j][x]) \subseteq Messages(requests[c][j][x])
      /\ \A x \in Servers : x # s => Messages(replies'[c][x]) = Messages(replies[c][x])
      /\ Messages(replies'[c][s]) \subseteq Messages(replies[c][s]) \cup {a}
  BY <1>1, <1>2, <1>3, ServerStepChannels
<1>5. /\ a.Objname = m.Objname /\ a.Phase = m.Phase
      /\ m.Phase = ABD_GET_DATA => a.TagValue_var = tagCodedElement_var[m.Objname][s]
  BY <1>1 DEF Served
<1>6. m.Objname \in Objects
  BY DEF Message
<1>7. /\ Objname' = Objname /\ Phase' = Phase /\ TagValue_var' = TagValue_var
      /\ responders' = responders /\ floor' = floor
  BY DEF ServerStep, phaseVars, historyVars
<1>8. Busy(c)' = Busy(c) /\ (Busy(c) => Objname[c] \in Objects)
  BY <1>7 DEF Busy, TypeOK
<1>9. PhaseOfKind(c)' /\ WriterTag(c)'
  BY <1>2, <1>7, <1>8 DEF ValueInvOf, PhaseOfKind, WriterTag, LowestTagValue
<1>10. PairsTravelWritten(c)'
  <2>1. m.Phase = ABD_GET_DATA => IsWritten(a.Objname, a.TagValue_var)'
    BY <1>2, <1>5, <1>6 DEF ServerValues, WrittenGrows
  <2>2. c \in Readers /\ Busy(c)' /\ (Phase'[c] = ABD_PUT_DATA \/ responders'[c] # {})
           => IsWritten(Objname[c], TagValue_var[c])'
    BY <1>2, <1>7, <1>8 DEF ValueInvOf, PairsTravelWritten, WrittenGrows
  <2>3. ASSUME NEW x \in Servers, NEW n \in Messages(replies'[c][x])
        PROVE  \/ n \in Messages(replies[c][x])
               \/ n.Phase = ABD_GET_DATA => IsWritten(n.Objname, n.TagValue_var)'
    <3>1. n \in Messages(replies[c][x]) \/ n = a
      BY <1>4, <2>3
    <3> QED
      BY <1>5, <2>1, <3>1
  <2> QED
    BY <1>2, <1>4, <2>2, <2>3, PairsTravelIf DEF ValueInvOf
<1>11. ASSUME NEW o \in Objects, NEW x \in Servers
       PROVE  (Stored(o, x) \in Tag)' /\ IsWritten(o, tagCodedElement_var[o][x])'
  <2>1. tagCodedElement_var'[o][x] =
          IF m.Phase = ABD_PUT_DATA /\ o = m.Objname /\ x = s
            THEN stored(tagCodedElement_var[o][s], m.TagValue_var)
            ELSE tagCodedElement_var[o][x]
    BY <1>1, ServedPointwise
  <2>2. NotFromTheFuture(c, s, m)
    BY <1>2, <1>4 DEF ChannelInvOf, InOrder
  <2>3. m.Phase = ABD_PUT_DATA => IsWritten(m.Objname, m.TagValue_var)
    BY <1>2, <1>4 DEF ValueInvOf, PairsTravelWritten
  <2>4. PICK tv : tv = tagCodedElement_var'[o][x]
    OBVIOUS
  <2>5. tv.Tag_var \in Tag /\ IsWritten(o, tv)
    BY <1>2, <2>1, <2>2, <2>3, <2>4 DEF stored, ServerValues, Stored, NotFromTheFuture
  <2>6. IsWritten(o, tv)'
    BY <2>5 DEF WrittenGrows
  <2> QED
    BY <2>4, <2>5, <2>6 DEF Stored, IsWritten
<1> QED
  BY <1>9, <1>10, <1>11 DEF ValueInvOf, ServerValues

LEMMA LogTypes ==
  ASSUME TypeOK, NEW o \in Objects, NEW e \in log[o]
  PROVE  /\ e.client \in Clients /\ e.floor \in AnyTag /\ completed[o] \in AnyTag
         /\ e.TagValue_var \in TagValue /\ e.TagValue_var.Tag_var \in AnyTag
         /\ floor[e.client] \in AnyTag
BY InitialTagIsTag DEF TypeOK, TagValue

\* As long as nothing ends, the log stays in order: an operation that starts
\* starts above everything that has ended.
LEMMA LogFrame ==
  ASSUME TypeOK, LogInv, WrittenGrows, log' = log, completed' = completed,
         \A d \in Clients : \/ UNCHANGED <<Objname[d], floor[d]>>
                            \/ Objname'[d] \in Objects => floor'[d] = completed[Objname'[d]]
  PROVE  LogInv'
<1>1. ASSUME NEW o \in Objects, NEW e \in log[o]
      PROVE  LogOf(o, e)'
  <2>1. LogOf(o, e) /\ e.client \in Clients
    BY LogTypes DEF LogInv
  <2>2. IsWritten(o, e.TagValue_var)'
    BY <2>1 DEF LogOf, WrittenGrows
  <2>3. Objname'[e.client] = o => AtLeast(floor'[e.client], e.TagValue_var.Tag_var)
    BY <2>1 DEF LogOf
  <2> QED
    BY <2>1, <2>2, <2>3 DEF LogOf
<1> QED
  BY <1>1 DEF LogInv

\* An operation that ends is logged above its floor, under a tag of its own if
\* it is a write.
LEMMA EndOperationLog ==
  ASSUME IInv, WrittenGrows, NEW c \in Clients, HasQuorum(c), EndOperation(c),
         c \in Writers => Phase[c] = ABD_PUT_DATA
  PROVE  LogInv'
<1> USE DEF IInv
<1>1. PICK o \in Objects : o = Objname[c]
  BY QuorumTag
<1>2. PICK tv \in TagValue : tv = TagValue_var[c]
  BY DEF TypeOK
<1>3. PICK new : new = [client |-> c, floor |-> floor[c], TagValue_var |-> tv]
  OBVIOUS
<1>4. /\ log'[o] = log[o] \cup {new}
      /\ \A x \in Objects \ {o} : log'[x] = log[x] /\ completed'[x] = completed[x]
      /\ completed'[o] = LargerTag(tv.Tag_var, completed[o])
      /\ Objname'[c] = NoObject /\ floor' = floor
      /\ \A d \in Clients \ {c} : Objname'[d] = Objname[d]
  BY <1>1, <1>2, <1>3 DEF EndOperation, TypeOK
<1>5. LogInv /\ ValueInvOf(c)
  BY DEF ValueInv
<1>6. tv.Tag_var \in AnyTag /\ completed[o] \in AnyTag /\ floor[c] \in AnyTag
  BY InitialTagIsTag DEF TypeOK, TagValue
<1>7. /\ AtLeast(completed'[o], tv.Tag_var) /\ AtLeast(completed'[o], completed[o])
      /\ completed'[o] \in AnyTag
  BY <1>4, <1>6, LargerTagBounds
<1>8. Busy(c) /\ responders[c] # {}
  BY QuorumTag DEF HasQuorum
<1>9. IsWritten(o, tv)
  <2>1. CASE c \in Writers
    BY <1>1, <1>2, <2>1 DEF IsWritten
  <2>2. CASE c \in Readers
    BY <1>1, <1>2, <1>5, <1>8, <2>2 DEF ValueInvOf, PairsTravelWritten
  <2> QED
    BY <2>1, <2>2 DEF Clients
<1>10. LogOf(o, new)'
  <2>1. IsWritten(o, tv)'
    BY <1>9 DEF WrittenGrows
  <2>2. c \in Writers => \E i \in Incarnations : tv.Tag_var.Client_id = NameTag[c][i]
    BY <1>2, <1>5, <1>8 DEF ValueInvOf, WriterTag
  <2>3. AtLeast(tv.Tag_var, floor[c])
    BY <1>2, QuorumAboveFloor
  <2> QED
    BY <1>3, <1>4, <1>7, <2>1, <2>2, <2>3, ObjectsAssumption DEF LogOf
<1>11. ASSUME NEW x \in Objects, NEW e \in log[x]
       PROVE  LogOf(x, e)'
  <2>1. LogOf(x, e)
    BY <1>5 DEF LogInv
  <2>2. IsWritten(x, e.TagValue_var)'
    BY <2>1 DEF LogOf, WrittenGrows
  <2>3. AtLeast(completed'[x], e.TagValue_var.Tag_var)
    <3>1. CASE x = o
      BY <1>6, <1>7, <2>1, <3>1, LogTypes, TagTransitive DEF LogOf
    <3>2. CASE x # o
      BY <1>4, <2>1, <3>2 DEF LogOf
    <3> QED
      BY <3>1, <3>2
  <2>4. Objname'[e.client] = x => AtLeast(floor'[e.client], e.TagValue_var.Tag_var)
    BY <1>4, <2>1, LogTypes, ObjectsAssumption DEF LogOf
  <2> QED
    BY <2>1, <2>2, <2>3, <2>4 DEF LogOf
<1>12. ASSUME NEW e \in log[o], e.client \in Writers, c \in Writers,
              e.TagValue_var.Tag_var = tv.Tag_var
       PROVE  FALSE
  <2>1. LogOf(o, e)
    BY <1>5 DEF LogInv
  <2>2. PICK i \in Incarnations : e.TagValue_var.Tag_var.Client_id = NameTag[e.client][i]
    BY <1>12, <2>1 DEF LogOf
  <2>3. /\ isGreaterTag(tv.Tag_var, floor[c])
        /\ \E j \in Incarnations : tv.Tag_var.Client_id = NameTag[c][j]
    BY <1>2, <1>5, <1>8, <1>12 DEF ValueInvOf, WriterTag
  <2>4. e.client = c
    BY <1>12, <2>2, <2>3, NameTagAssumption
  <2>5. AtLeast(floor[c], tv.Tag_var)
    BY <1>1, <1>12, <2>1, <2>4 DEF LogOf
  <2> QED
    BY <1>6, <2>3, <2>5, TagTotal
<1>13. ASSUME NEW x \in Objects, NEW e \in log'[x], NEW f \in log'[x],
              e.client \in Writers, f.client \in Writers,
              e.TagValue_var.Tag_var = f.TagValue_var.Tag_var
       PROVE  e = f
  <2>1. CASE e \in log[x] /\ f \in log[x]
    BY <1>5, <1>13, <2>1 DEF LogInv
  <2>2. CASE x = o /\ (e = new \/ f = new)
    BY <1>3, <1>4, <1>12, <1>13, <2>2
  <2> QED
    BY <1>4, <1>13, <2>1, <2>2
<1>14. \A x \in Objects : \A e \in log'[x] : LogOf(x, e)'
  BY <1>4, <1>10, <1>11
<1> QED
  BY <1>13, <1>14 DEF LogInv

LEMMA ValueInductive ==
  ASSUME IInv, [Next]_vars
  PROVE  ValueInv'
<1> USE DEF IInv
<1>0. /\ WrittenGrows /\ LogInv /\ ServerValues
      /\ \A c \in Clients : ValueInvOf(c) /\ ChannelInvOf(c)
  BY StepWrittenGrows DEF ValueInv, ChannelInv
<1>1. ASSUME UNCHANGED tagCodedElement_var PROVE ServerValues'
  BY <1>0, <1>1 DEF ServerValues, Stored, WrittenGrows, TypeOK
<1>2. ASSUME NEW c \in Clients, ClientStep(c)
      PROVE  ValueInvOf(c)' /\ ServerValues' /\ LogInv'
  <2>0. ValueInvOf(c) /\ ChannelInvOf(c)
    BY <1>0
  <2>1. ASSUME NEW o \in Objects, StartRead(c, o) \/ StartWrite(c, o)
        PROVE  ValueInvOf(c)' /\ ServerValues' /\ LogInv'
    <3>1. PICK phase \in Phases :
            /\ StartOperation(c, o, phase) /\ phase # ABD_PUT_DATA
            /\ c \in Writers => phase # ABD_GET_DATA
            /\ c \in Readers => phase # ABD_GET_TAG
      <4>1. CASE StartRead(c, o)
        BY <4>1, ClientsAssumption
        DEF StartRead, Phases, ABD_GET_DATA, ABD_PUT_DATA, ABD_GET_TAG
      <4>2. CASE StartWrite(c, o)
        BY <4>2, ClientsAssumption
        DEF StartWrite, Phases, ABD_GET_DATA, ABD_PUT_DATA, ABD_GET_TAG
      <4> QED
        BY <2>1, <4>1, <4>2
    <3>2. ValueInvOf(c)'
      BY <1>0, <2>0, <3>1, StartOperationValues
    <3>3. LogInv'
      BY <1>0, <3>1, LogFrame DEF StartOperation, TypeOK
    <3> QED
      BY <1>1, <3>1, <3>2, <3>3 DEF StartOperation
  <2>2. ASSUME NEW s \in Servers, CollectReply(c, s) \/ DiscardReply(c, s)
        PROVE  ValueInvOf(c)' /\ ServerValues' /\ LogInv'
    <3>1. ValueInvOf(c)'
      BY <1>0, <2>0, <2>2, CollectReplyValues, DiscardReplyValues
    <3>2. UNCHANGED <<tagCodedElement_var, Objname, floor, log, completed>>
      BY <2>2 DEF CollectReply, DiscardReply, serverVars, historyVars
    <3> QED
      BY <1>0, <1>1, <3>1, <3>2, LogFrame
  <2>3. CASE WriterPutsData(c)
    <3>1. PICK tv : tv = [Tag_var |-> newTag(c), Value |-> <<c, Opnum(c)>>]
      OBVIOUS
    <3>2. HasQuorum(c) /\ Busy(c) /\ StartPutData(c, tv) /\ c \in Writers
      BY <2>3, <3>1 DEF WriterPutsData, HasQuorum
    <3>3. tv \in TagValue /\ tv.Tag_var \in Tag /\ tv.Tag_var = newTag(c)
      BY <3>1, <3>2, NewTagType
    <3>4. c \notin Readers
      BY <3>2, ClientsAssumption
    <3>5. isGreaterTag(tv.Tag_var, floor[c])
      <4>1. AtLeast(TagValue_var[c].Tag_var, floor[c]) /\ TagValue_var[c].Tag_var \in Tag
        BY <3>2, QuorumAboveFloor, QuorumTag
      <4>2. isGreaterTag(newTag(c), TagValue_var[c].Tag_var)
        BY <4>1 DEF newTag, isGreaterTag, Tag
      <4> QED
        BY <3>3, <4>1, <4>2, InitialTagIsTag, TagTransitive DEF TypeOK
    <3>6. \E i \in Incarnations : tv.Tag_var.Client_id = NameTag[c][i]
      BY <3>3 DEF newTag, TypeOK
    <3>7. ValueInvOf(c)'
      BY <1>0, <2>0, <3>2, <3>3, <3>4, <3>5, <3>6, StartPutDataValues
    <3>8. UNCHANGED <<tagCodedElement_var, Objname, floor, log, completed>>
      BY <3>2 DEF StartPutData, serverVars, historyVars
    <3> QED
      BY <1>0, <1>1, <3>7, <3>8, LogFrame
  <2>4. CASE ReaderPutsData(c)
    <3>1. PICK tv : tv = TagValue_var[c]
      OBVIOUS
    <3>2. HasQuorum(c) /\ Busy(c) /\ StartPutData(c, tv) /\ c \in Readers
      BY <2>4, <3>1 DEF ReaderPutsData, HasQuorum
    <3>3. tv \in TagValue /\ tv.Tag_var \in Tag /\ responders[c] # {}
      BY <3>1, <3>2, QuorumTag DEF TypeOK
    <3>4. c \notin Writers
      BY <3>2, ClientsAssumption
    <3>5. IsWritten(Objname[c], tv)
      BY <2>0, <3>1, <3>2, <3>3 DEF ValueInvOf, PairsTravelWritten
    <3>6. ValueInvOf(c)'
      BY <1>0, <2>0, <3>2, <3>3, <3>4, <3>5, StartPutDataValues
    <3>7. UNCHANGED <<tagCodedElement_var, Objname, floor, log, completed>>
      BY <3>2 DEF StartPutData, serverVars, historyVars
    <3> QED
      BY <1>0, <1>1, <3>6, <3>7, LogFrame
  <2>5. CASE ReadInOnePhase(c) \/ PutDataCompletes(c)
    <3>1. HasQuorum(c) /\ EndOperation(c) /\ (c \in Writers => Phase[c] = ABD_PUT_DATA)
      BY <2>5, ClientsAssumption DEF ReadInOnePhase, PutDataCompletes
    <3> QED
      BY <1>0, <1>1, <2>0, <3>1, EndOperationValues, EndOperationLog
      DEF EndOperation, serverVars
  <2>6. CASE emulateNewClient(c)
    <3>1. ValueInvOf(c)'
      BY <1>0, <2>0, <2>6, EmulateNewClientValues
    <3>2. UNCHANGED <<tagCodedElement_var, Objname, floor, log, completed>>
      BY <2>6 DEF emulateNewClient, serverVars, historyVars
    <3> QED
      BY <1>0, <1>1, <3>1, <3>2, LogFrame
  <2> QED
    BY <1>2, <2>1, <2>2, <2>3, <2>4, <2>5, <2>6 DEF ClientStep
<1>3. ASSUME NEW s \in Servers, NEW c \in Clients, NEW i \in Incarnations,
             ServerStep(s, c, i)
      PROVE  ValueInvOf(c)' /\ ServerValues' /\ LogInv'
  <2>1. UNCHANGED <<Objname, floor, log, completed>>
    BY <1>3 DEF ServerStep, historyVars
  <2> QED
    BY <1>0, <1>3, <2>1, LogFrame, ServerStepValues
<1>4. ASSUME NEW c \in Clients, ValueInvOf(c)', ServerValues', LogInv',
             \/ ClientStep(c)
             \/ \E s \in Servers, i \in Incarnations : ServerStep(s, c, i)
      PROVE  ValueInv'
  <2>1. ASSUME NEW d \in Clients, d # c PROVE ValueInvOf(d)'
    BY <1>0, <1>4, <2>1, OthersUnchanged, ValueFrame
  <2> QED
    BY <1>4, <2>1 DEF ValueInv
<1>5. ASSUME UNCHANGED <<tagCodedElement_var, Objname, OpnumTable, Phase, incarnation,
                         phaseVars, requests, replies, historyVars>>
      PROVE  ValueInv'
  <2>1. ASSUME NEW d \in Clients PROVE ValueInvOf(d)'
    <3>1. UNCHANGED ClientVars(d)
      BY <1>5 DEF ClientVars, phaseVars, historyVars
    <3> QED
      BY <1>0, <3>1, ValueFrame
  <2> QED
    BY <1>0, <1>1, <1>5, <2>1, LogFrame DEF ValueInv, historyVars
<1>6. ASSUME NEW s \in Servers, KillServer(s) PROVE ValueInv'
  BY <1>5, <1>6 DEF KillServer, netVars
<1>7. ASSUME AllDone \/ UNCHANGED vars PROVE ValueInv'
  BY <1>5, <1>7 DEF AllDone, vars, phaseVars, historyVars
<1> QED
  BY <1>2, <1>3, <1>4, <1>6, <1>7 DEF Next

-----------------------------------------------------------------------------
(* Order *)

StoredGrows ==
  \A o \in Objects, s \in Servers :
    AtLeast(tagCodedElement_var'[o][s].Tag_var, tagCodedElement_var[o][s].Tag_var)

LEMMA StepStoredGrows ==
  ASSUME TypeOK, [Next]_vars
  PROVE  StoredGrows
<1>0. \A o \in Objects, s \in Servers : tagCodedElement_var[o][s].Tag_var \in AnyTag
  BY DEF TypeOK, TagValue
<1>1. ASSUME UNCHANGED tagCodedElement_var PROVE StoredGrows
  BY <1>0, <1>1, TagTotal DEF StoredGrows
<1>2. ASSUME NEW s \in Servers, NEW c \in Clients, NEW i \in Incarnations,
             ServerStep(s, c, i)
      PROVE  StoredGrows
  <2> SUFFICES ASSUME NEW o \in Objects, NEW x \in Servers
               PROVE  AtLeast(tagCodedElement_var'[o][x].Tag_var,
                              tagCodedElement_var[o][x].Tag_var)
    BY DEF StoredGrows
  <2>1. \/ tagCodedElement_var'[o][x] = tagCodedElement_var[o][x]
        \/ isGreaterTag(tagCodedElement_var'[o][x].Tag_var,
                        tagCodedElement_var[o][x].Tag_var)
    BY <1>2, ServerStepForward
  <2>2. tagCodedElement_var'[o][x].Tag_var \in AnyTag
    <3>1. TypeOK'
      BY TypeInductive
    <3> QED
      BY <3>1 DEF TypeOK, TagValue
  <2> QED
    BY <1>0, <2>1, <2>2, TagTotal
<1>3. ASSUME NEW c \in Clients, ClientStep(c) PROVE UNCHANGED tagCodedElement_var
  BY <1>3 DEF ClientStep, StartRead, StartWrite, StartOperation, CollectReply,
       DiscardReply, WriterPutsData, ReaderPutsData, StartPutData, ReadInOnePhase,
       PutDataCompletes, EndOperation, emulateNewClient, serverVars
<1>4. ASSUME (\E s \in Servers : KillServer(s)) \/ AllDone \/ UNCHANGED vars
      PROVE  UNCHANGED tagCodedElement_var
  BY <1>4 DEF KillServer, AllDone, vars
<1> QED
  BY <1>1, <1>2, <1>3, <1>4 DEF Next

\* Every tag compared below is one.
LEMMA TagsTyped ==
  ASSUME TypeOK
  PROVE  /\ \A o \in Objects, s \in Servers : Stored(o, s) \in AnyTag
         /\ \A o \in Objects : completed[o] \in AnyTag
         /\ \A c \in Clients : floor[c] \in AnyTag /\ TagValue_var[c].Tag_var \in AnyTag
         /\ \A c \in Clients, s \in Servers : \A m \in Messages(replies[c][s]) :
              m \in Message /\ m.TagValue_var.Tag_var \in AnyTag
<1>1. \A q \in Seq(Message) : \A m \in Messages(q) :
        m \in Message /\ m.TagValue_var.Tag_var \in AnyTag
  BY MessagesTyped DEF TagValue
<1> QED
  BY <1>1, InitialTagIsTag DEF TypeOK, TagValue, Stored

LEMMA CompletedHeldFrame ==
  ASSUME TypeOK, TypeOK', StoredGrows, CompletedHeld, completed' = completed
  PROVE  CompletedHeld'
<1> SUFFICES ASSUME NEW o \in Objects
             PROVE  \E Q \in Majorities(o) : \A s \in Q :
                      AtLeast(tagCodedElement_var'[o][s].Tag_var, completed[o])
  BY DEF CompletedHeld, Stored, Majorities, quorum_size
<1>1. PICK Q \in Majorities(o) : \A s \in Q :
        AtLeast(tagCodedElement_var[o][s].Tag_var, completed[o])
  BY DEF CompletedHeld, Stored
<1>2. Q \subseteq Servers
  BY QuorumSize DEF Majorities
<1>3. ASSUME NEW s \in Q PROVE AtLeast(tagCodedElement_var'[o][s].Tag_var, completed[o])
  <2>1. /\ tagCodedElement_var'[o][s].Tag_var \in AnyTag
        /\ tagCodedElement_var[o][s].Tag_var \in AnyTag /\ completed[o] \in AnyTag
    BY <1>2, InitialTagIsTag DEF TypeOK, TagValue
  <2> QED
    BY <1>1, <1>2, <2>1, TagTransitive DEF StoredGrows
<1> QED
  BY <1>3

\* What a client relies on survives when the servers' tags grow, its reply
\* channels only lose messages and it stays in its phase.
LEMMA OrderKept ==
  ASSUME TypeOK, TypeOK', StoredGrows, NEW c \in Clients, OrderInvOf(c),
         UNCHANGED <<Objname[c], OpnumTable[c], Phase[c], TagValue_var[c],
                     IsOnePhase[c], requests[c], responders[c], floor[c]>>,
         \A s \in Servers : Messages(replies'[c][s]) \subseteq Messages(replies[c][s])
  PROVE  OrderInvOf(c)'
<1>1. Current(c)' = Current(c) /\ Busy(c)' = Busy(c)
  BY CurrentSame
<1>2. ASSUME Busy(c) PROVE Objname[c] \in Objects
  BY <1>2 DEF Busy, TypeOK
<1>3. ASSUME Busy(c), NEW s \in Servers, NEW t \in AnyTag, AtLeast(Stored(Objname[c], s), t)
      PROVE  AtLeast(Stored(Objname[c], s)', t)
  <2>1. /\ Stored(Objname[c], s) \in AnyTag /\ Stored(Objname[c], s)' \in AnyTag
        /\ AtLeast(Stored(Objname[c], s)', Stored(Objname[c], s))
    BY <1>2, <1>3 DEF TypeOK, TagValue, Stored, StoredGrows
  <2> QED
    BY <1>3, <2>1, TagTransitive
<1>4. QueryInv(c)'
  <2> SUFFICES ASSUME Busy(c), Phase[c] # ABD_PUT_DATA
               PROVE  /\ \E Q \in Majorities(Objname[c]) : \A s \in Q : FloorAnswered(c, s)'
                      /\ \A s \in Servers : AnswerStored(c, s)'
    BY <1>1 DEF QueryInv, Majorities, quorum_size
  <2>1. ASSUME NEW s \in Servers, FloorAnswered(c, s) PROVE FloorAnswered(c, s)'
    BY <1>1, <1>3, <2>1, TagsTyped DEF FloorAnswered
  <2>2. ASSUME NEW s \in Servers, AnswerStored(c, s) PROVE AnswerStored(c, s)'
    BY <1>1, <1>3, <2>2, TagsTyped DEF AnswerStored
  <2>3. \A Q \in Majorities(Objname[c]) : Q \subseteq Servers
    BY <1>2, QuorumSize DEF Majorities
  <2> QED
    BY <2>1, <2>2, <2>3 DEF OrderInvOf, QueryInv
<1>5. PutInv(c)'
  <2> SUFFICES ASSUME Busy(c), Phase[c] = ABD_PUT_DATA, NEW s \in Servers
               PROVE  /\ AtLeast(TagValue_var[c].Tag_var, floor[c])
                      /\ \A i \in Incarnations : \A m \in Messages(requests[c][i][s]) \cap Current(c) :
                           m.TagValue_var = TagValue_var[c]
                      /\ s \in responders[c] \/ Messages(replies'[c][s]) \cap Current(c) # {} =>
                           AtLeast(Stored(Objname[c], s)', TagValue_var[c].Tag_var)
    <3>1. Busy(c) /\ Phase[c] = ABD_PUT_DATA => AtLeast(TagValue_var[c].Tag_var, floor[c])
      BY DEF OrderInvOf, PutInv
    <3> QED
      BY <1>1, <3>1 DEF PutInv
  <2>1. Messages(replies'[c][s]) \cap Current(c) # {} => Messages(replies[c][s]) \cap Current(c) # {}
    OBVIOUS
  <2>2. TagValue_var[c].Tag_var \in AnyTag
    BY TagsTyped
  <2> QED
    BY <1>3, <2>1, <2>2 DEF OrderInvOf, PutInv
<1> QED
  BY <1>4, <1>5 DEF OrderInvOf

\* A query starts above what ended before it because a majority holds that.
LEMMA StartOperationOrder ==
  ASSUME TypeOK, NEW c \in Clients, ChannelInvOf(c), CompletedHeld, NEW o \in Objects,
         NEW phase \in Phases, phase # ABD_PUT_DATA, StartOperation(c, o, phase)
  PROVE  OrderInvOf(c)'
<1>1. /\ Objname'[c] = o /\ floor'[c] = completed[o] /\ replies' = replies
      /\ tagCodedElement_var' = tagCodedElement_var
      /\ Phase'[c] = phase /\ responders'[c] = {}
  BY DEF StartOperation, EnterPhase, TypeOK
<1>2. \A s \in Servers : Messages(replies[c][s]) \cap Current(c)' = {}
  BY StartOperationChannels DEF NoneOf
<1>3. PICK Q \in Majorities(o) : \A s \in Q : AtLeast(Stored(o, s), completed[o])
  BY DEF CompletedHeld
<1>4. Q \subseteq Servers
  BY QuorumSize DEF Majorities
<1>5. \A s \in Q : FloorAnswered(c, s)'
  BY <1>1, <1>2, <1>3, <1>4 DEF FloorAnswered, Stored
<1>6. \A s \in Servers : AnswerStored(c, s)'
  BY <1>1, <1>2 DEF AnswerStored
<1>7. QueryInv(c)'
  BY <1>1, <1>5, <1>6 DEF QueryInv, Majorities, quorum_size
<1>8. PutInv(c)'
  BY <1>1 DEF PutInv
<1> QED
  BY <1>7, <1>8 DEF OrderInvOf

LEMMA StartPutDataOrder ==
  ASSUME TypeOK, NEW c \in Clients, ChannelInvOf(c), Busy(c), Phase[c] # ABD_PUT_DATA,
         NEW tv \in TagValue, tv.Tag_var \in Tag, StartPutData(c, tv),
         AtLeast(tv.Tag_var, floor[c])
  PROVE  OrderInvOf(c)'
<1> PICK m : m = [Objname |-> Objname[c], Opnum |-> Opnum(c),
                  Phase |-> ABD_PUT_DATA, TagValue_var |-> tv]
  OBVIOUS
<1>1. Objname[c] \in Objects /\ Opnum(c) \in Nat
  BY DEF TypeOK, Busy, Opnum
<1>2. m \in Message /\ m.TagValue_var = tv
  BY <1>1 DEF Message, Phases
<1>3. SendToServers(c, m) /\ replies' = replies /\ floor' = floor
  BY DEF StartPutData, historyVars
<1>4. responders'[c] = {} /\ TagValue_var'[c] = tv /\ Phase'[c] = ABD_PUT_DATA
  BY DEF StartPutData, EnterPhase, TypeOK
<1>5. NoneOf(c, Current(c)')
  BY StartPutDataChannels
<1>6. ASSUME NEW s \in Servers, NEW i \in Incarnations,
             NEW n \in Messages(requests'[c][i][s]) \cap Current(c)'
      PROVE  n.TagValue_var = tv
  <2>1. n \in Messages(requests[c][i][s]) \/ n = m
    BY <1>2, <1>3, SentMessages
  <2>2. n \notin Messages(requests[c][i][s])
    BY <1>5 DEF NoneOf
  <2> QED
    BY <1>2, <2>1, <2>2
<1>7. PutInv(c)'
  BY <1>3, <1>4, <1>5, <1>6 DEF PutInv, NoneOf
<1>8. QueryInv(c)'
  BY <1>4 DEF QueryInv
<1> QED
  BY <1>7, <1>8 DEF OrderInvOf

LEMMA CollectReplyOrder ==
  ASSUME TypeOK, TypeOK', NEW c \in Clients, ChannelInvOf(c), PhaseOfKind(c), OrderInvOf(c),
         NEW s \in Servers, CollectReply(c, s)
  PROVE  OrderInvOf(c)'
<1> PICK m : m = Head(replies[c][s])
  OBVIOUS
<1>1. /\ m \in Messages(replies[c][s]) \cap Current(c) /\ Busy(c)
      /\ responders'[c] = responders[c] \cup {s}
      /\ UNCHANGED <<Objname, Phase, floor, requests, tagCodedElement_var>>
  BY CollectReplyEffect
<1>2. \A x \in Servers : Messages(replies'[c][x]) \subseteq Messages(replies[c][x])
  BY CollectReplyChannels
<1>3. Current(c)' = Current(c) /\ Busy(c)'
  BY <1>1, CurrentSame DEF CollectReply
<1>4. CASE Phase[c] = ABD_PUT_DATA
  <2>1. TagValue_var'[c] = TagValue_var[c]
    BY <1>4, CollectReplyEffect
  <2>2. ASSUME NEW x \in Servers
        PROVE  x \in responders'[c] \/ Messages(replies'[c][x]) \cap Current(c) # {}
                 => x \in responders[c] \/ Messages(replies[c][x]) \cap Current(c) # {}
    BY <1>1, <1>2
  <2>3. PutInv(c)'
    BY <1>1, <1>3, <1>4, <2>1, <2>2 DEF OrderInvOf, PutInv, Stored
  <2> QED
    BY <1>1, <1>4, <2>3 DEF OrderInvOf, QueryInv
<1>5. CASE Phase[c] # ABD_PUT_DATA
  <2>1. /\ AtLeast(TagValue_var'[c].Tag_var, m.TagValue_var.Tag_var)
        /\ AtLeast(TagValue_var'[c].Tag_var, TagValue_var[c].Tag_var)
        /\ IsOnePhase'[c] /\ responders[c] # {} =>
             IsOnePhase[c] /\ TagValue_var'[c].Tag_var = TagValue_var[c].Tag_var
        /\ IsOnePhase'[c] => TagValue_var'[c].Tag_var = m.TagValue_var.Tag_var
    BY <1>5, CollectReplyEffect
  <2>2. /\ m.TagValue_var.Tag_var \in AnyTag /\ TagValue_var[c].Tag_var \in AnyTag
        /\ TagValue_var'[c].Tag_var \in AnyTag /\ floor[c] \in AnyTag
    BY <1>1, TagsTyped DEF TypeOK, TagValue
  <2>3. ASSUME NEW x \in Servers, FloorAnswered(c, x) PROVE FloorAnswered(c, x)'
    <3>1. x \in responders'[c] => AtLeast(TagValue_var'[c].Tag_var, floor[c])
      <4>1. CASE x = s
        <5>1. AtLeast(m.TagValue_var.Tag_var, floor[c])
          BY <1>1, <2>3, <4>1 DEF FloorAnswered
        <5> QED
          BY <2>1, <2>2, <5>1, TagTransitive
      <4>2. CASE x # s
        BY <1>1, <2>1, <2>2, <2>3, <4>2, TagTransitive DEF FloorAnswered
      <4> QED
        BY <4>1, <4>2
    <3> QED
      BY <1>1, <1>2, <1>3, <2>3, <3>1 DEF FloorAnswered, Stored
  <2>4. ASSUME NEW x \in Servers, AnswerStored(c, x) PROVE AnswerStored(c, x)'
    <3>1. x \in responders'[c] /\ IsOnePhase'[c] =>
            AtLeast(Stored(Objname[c], x), TagValue_var'[c].Tag_var)
      BY <1>1, <2>1, <2>4 DEF AnswerStored
    <3> QED
      BY <1>1, <1>2, <1>3, <2>4, <3>1 DEF AnswerStored, Stored
  <2>5. \A Q \in Majorities(Objname[c]) : Q \subseteq Servers
    BY <1>1, QuorumSize DEF Majorities, Busy, TypeOK
  <2>6. QueryInv(c)'
    BY <1>1, <1>3, <1>5, <2>3, <2>4, <2>5 DEF OrderInvOf, QueryInv, Majorities, quorum_size
  <2> QED
    BY <1>1, <1>5, <2>6 DEF OrderInvOf, PutInv
<1> QED
  BY <1>4, <1>5

LEMMA IdleOrder ==
  ASSUME NEW c \in Clients, ~ Busy(c)'
  PROVE  OrderInvOf(c)'
BY DEF OrderInvOf, QueryInv, PutInv

\* What ended is held by a majority: the one that acknowledged the put, or the
\* one whose equal answers let a read end in one phase.
LEMMA EndOperationOrder ==
  ASSUME IInv, NEW c \in Clients, HasQuorum(c), EndOperation(c),
         Phase[c] # ABD_PUT_DATA => IsOnePhase[c]
  PROVE  OrderInvOf(c)' /\ CompletedHeld'
<1> USE DEF IInv
<1>1. ~ Busy(c)'
  BY DEF EndOperation, Busy, TypeOK
<1>2. PICK o \in Objects : o = Objname[c] /\ responders[c] \in Majorities(o)
  BY QuorumTag
<1>3. /\ completed'[o] = LargerTag(TagValue_var[c].Tag_var, completed[o])
      /\ \A x \in Objects \ {o} : completed'[x] = completed[x]
      /\ tagCodedElement_var' = tagCodedElement_var
  BY <1>2 DEF EndOperation, TypeOK, serverVars
<1>4. ASSUME NEW s \in responders[c] PROVE AtLeast(Stored(o, s), TagValue_var[c].Tag_var)
  <2>1. Busy(c) /\ s \in Servers
    BY DEF HasQuorum, TypeOK
  <2> QED
    BY <1>2, <2>1 DEF OrderInv, OrderInvOf, QueryInv, PutInv, AnswerStored
<1>5. ASSUME NEW x \in Objects
      PROVE  \E Q \in Majorities(x) : \A s \in Q : AtLeast(Stored(x, s), completed'[x])
  <2>1. CASE x = o /\ completed'[o] = TagValue_var[c].Tag_var
    BY <1>2, <1>4, <2>1
  <2>2. CASE completed'[x] = completed[x]
    BY <2>2 DEF OrderInv, CompletedHeld
  <2>3. completed'[o] \in {TagValue_var[c].Tag_var, completed[o]}
    BY <1>3 DEF LargerTag
  <2> QED
    BY <1>3, <2>1, <2>2, <2>3
<1>6. CompletedHeld'
  BY <1>3, <1>5 DEF CompletedHeld, Stored, Majorities, quorum_size
<1> QED
  BY <1>1, <1>6, IdleOrder

\* A server answers a query with what it holds, and a put after storing it.
LEMMA ServerStepOrder ==
  ASSUME IInv, TypeOK', StoredGrows, NEW s \in Servers, NEW c \in Clients,
         NEW i \in Incarnations, ServerStep(s, c, i)
  PROVE  OrderInvOf(c)'
<1> USE DEF IInv
<1>1. PICK m, a \in Message : Served(s, c, i, m, a)
  BY ServerEffect
<1>2. /\ ValueInvOf(c) /\ ChannelInvOf(c) /\ OrderInvOf(c)
      /\ \A o \in Objects : Stored(o, s) \in Tag
  BY DEF ValueInv, ServerValues, ChannelInv, OrderInv
<1>3. /\ m \in Messages(requests[c][i][s]) /\ (a \in Current(c) <=> m \in Current(c))
      /\ Current(c)' = Current(c)
      /\ \A j \in Incarnations, x \in Servers :
           Messages(requests'[c][j][x]) \subseteq Messages(requests[c][j][x])
      /\ \A x \in Servers : x # s => Messages(replies'[c][x]) = Messages(replies[c][x])
      /\ Messages(replies'[c][s]) \subseteq Messages(replies[c][s]) \cup {a}
  BY <1>1, <1>2, ServerStepChannels
<1>4. /\ a.Phase = m.Phase
      /\ m.Phase # ABD_PUT_DATA =>
           a.TagValue_var.Tag_var = tagCodedElement_var[m.Objname][s].Tag_var
  BY <1>1 DEF Served
<1>5. /\ Objname' = Objname /\ Phase' = Phase /\ TagValue_var' = TagValue_var
      /\ responders' = responders /\ floor' = floor /\ IsOnePhase' = IsOnePhase
  BY DEF ServerStep, phaseVars, historyVars
<1>6. Busy(c)' = Busy(c) /\ (Busy(c) => Objname[c] \in Objects)
  BY <1>5 DEF Busy, TypeOK
<1>7. m \in Current(c) => m.Objname = Objname[c] /\ m.Phase = Phase[c] /\ Busy(c)
  BY DEF Current, isMessageUseful
<1>8. ASSUME Busy(c), NEW x \in Servers, NEW t \in AnyTag, AtLeast(Stored(Objname[c], x), t)
      PROVE  AtLeast(Stored(Objname[c], x)', t)
  <2>1. /\ Stored(Objname[c], x) \in AnyTag /\ Stored(Objname[c], x)' \in AnyTag
        /\ AtLeast(Stored(Objname[c], x)', Stored(Objname[c], x))
    BY <1>5, <1>6, <1>8 DEF TypeOK, TagValue, Stored, StoredGrows
  <2> QED
    BY <1>8, <2>1, TagTransitive
<1>9. ASSUME NEW x \in Servers, NEW n \in Messages(replies'[c][x]) \cap Current(c)
      PROVE  \/ n \in Messages(replies[c][x]) \cap Current(c)
             \/ n = a /\ x = s /\ m \in Current(c)
  BY <1>3, <1>9
<1>10. QueryInv(c)'
  <2> SUFFICES ASSUME Busy(c), Phase[c] # ABD_PUT_DATA
               PROVE  /\ \E Q \in Majorities(Objname[c]) : \A x \in Q : FloorAnswered(c, x)'
                      /\ \A x \in Servers : AnswerStored(c, x)'
    BY <1>5, <1>6 DEF QueryInv, Majorities, quorum_size
  <2>1. m \in Current(c) => a.TagValue_var.Tag_var = Stored(Objname[c], s)
    BY <1>4, <1>7 DEF Stored
  <2>2. /\ floor[c] \in AnyTag /\ TagValue_var[c].Tag_var \in AnyTag
        /\ a.TagValue_var.Tag_var \in AnyTag
        /\ \A x \in Servers : \A n \in Messages(replies[c][x]) : n.TagValue_var.Tag_var \in AnyTag
    BY TagsTyped DEF Message, TagValue
  <2>3. ASSUME NEW x \in Servers, FloorAnswered(c, x) PROVE FloorAnswered(c, x)'
    <3>1. AtLeast(Stored(Objname[c], x)', floor[c])
      BY <1>8, <2>2, <2>3 DEF FloorAnswered
    <3>2. \A n \in Messages(replies'[c][x]) \cap Current(c) :
            AtLeast(n.TagValue_var.Tag_var, floor[c])
      BY <1>9, <2>1, <2>3 DEF FloorAnswered
    <3> QED
      BY <1>3, <1>5, <2>3, <3>1, <3>2 DEF FloorAnswered
  <2>4. ASSUME NEW x \in Servers, AnswerStored(c, x) PROVE AnswerStored(c, x)'
    <3>1. ASSUME NEW n \in Messages(replies'[c][x]) \cap Current(c)
          PROVE  AtLeast(Stored(Objname[c], x)', n.TagValue_var.Tag_var)
      <4>1. CASE n \in Messages(replies[c][x]) \cap Current(c)
        BY <1>8, <2>2, <2>4, <4>1 DEF AnswerStored
      <4>2. CASE n = a /\ x = s /\ m \in Current(c)
        BY <1>6, <2>1, <4>2, <1>8, <2>2, TagTotal
      <4> QED
        BY <1>9, <4>1, <4>2
    <3>2. x \in responders[c] /\ IsOnePhase[c] =>
            AtLeast(Stored(Objname[c], x)', TagValue_var[c].Tag_var)
      BY <1>8, <2>2, <2>4 DEF AnswerStored
    <3> QED
      BY <1>3, <1>5, <3>1, <3>2 DEF AnswerStored
  <2>5. \A Q \in Majorities(Objname[c]) : Q \subseteq Servers
    BY <1>6, QuorumSize DEF Majorities
  <2> QED
    BY <1>2, <2>3, <2>4, <2>5 DEF OrderInvOf, QueryInv
<1>11. PutInv(c)'
  <2> SUFFICES ASSUME Busy(c), Phase[c] = ABD_PUT_DATA
               PROVE  PutInv(c)'
    BY <1>5, <1>6 DEF PutInv
  <2>1. PutInv(c)
    BY <1>2 DEF OrderInvOf
  <2>2. TagValue_var[c].Tag_var \in AnyTag
    BY TagsTyped
  <2>3. ASSUME m \in Current(c)
        PROVE  AtLeast(Stored(Objname[c], s)', TagValue_var[c].Tag_var)
    <3>1. m.TagValue_var = TagValue_var[c] /\ m.Objname = Objname[c] /\ m.Phase = ABD_PUT_DATA
      BY <1>3, <1>7, <2>1, <2>3 DEF PutInv
    <3>2. tagCodedElement_var'[Objname[c]][s] =
            stored(tagCodedElement_var[Objname[c]][s], TagValue_var[c])
      BY <1>1, <1>6, <3>1, ServedPointwise
    <3>3. tagCodedElement_var[Objname[c]][s].Tag_var \in AnyTag
      BY <1>6 DEF TypeOK, TagValue
    <3> QED
      BY <1>5, <2>2, <3>2, <3>3, TagTotal DEF Stored, stored, AtLeast
  <2>4. ASSUME NEW x \in Servers,
               x \in responders[c] \/ Messages(replies'[c][x]) \cap Current(c) # {}
        PROVE  AtLeast(Stored(Objname[c], x)', TagValue_var[c].Tag_var)
    <3>1. CASE x \in responders[c] \/ Messages(replies[c][x]) \cap Current(c) # {}
      BY <1>8, <2>1, <2>2, <3>1 DEF PutInv
    <3>2. CASE x = s /\ m \in Current(c)
      BY <2>3, <3>2
    <3> QED
      BY <1>9, <2>4, <3>1, <3>2
  <2> QED
    BY <1>3, <1>5, <2>1, <2>4 DEF PutInv
<1> QED
  BY <1>10, <1>11 DEF OrderInvOf

LEMMA OrderInductive ==
  ASSUME IInv, [Next]_vars
  PROVE  OrderInv'
<1> USE DEF IInv
<1>0. /\ TypeOK' /\ StoredGrows /\ CompletedHeld
      /\ \A c \in Clients : OrderInvOf(c) /\ ChannelInvOf(c) /\ PhaseOfKind(c)
  BY TypeInductive, StepStoredGrows DEF OrderInv, ChannelInv, ValueInv, ValueInvOf
<1>1. ASSUME completed' = completed PROVE CompletedHeld'
  BY <1>0, <1>1, CompletedHeldFrame
<1>2. ASSUME NEW c \in Clients, ClientStep(c) PROVE OrderInvOf(c)' /\ CompletedHeld'
  <2>0. OrderInvOf(c) /\ ChannelInvOf(c) /\ PhaseOfKind(c)
    BY <1>0
  <2>1. ASSUME NEW o \in Objects, StartRead(c, o) \/ StartWrite(c, o)
        PROVE  OrderInvOf(c)' /\ CompletedHeld'
    <3>1. PICK phase \in Phases : StartOperation(c, o, phase) /\ phase # ABD_PUT_DATA
      BY <2>1 DEF StartRead, StartWrite, Phases, ABD_GET_DATA, ABD_PUT_DATA, ABD_GET_TAG
    <3> QED
      BY <1>0, <1>1, <2>0, <3>1, StartOperationOrder DEF StartOperation
  <2>2. ASSUME NEW s \in Servers, CollectReply(c, s) PROVE OrderInvOf(c)' /\ CompletedHeld'
    BY <1>0, <1>1, <2>0, <2>2, CollectReplyOrder DEF CollectReply, historyVars
  <2>3. ASSUME NEW s \in Servers, DiscardReply(c, s) PROVE OrderInvOf(c)' /\ CompletedHeld'
    <3>1. /\ replies[c][s] \in Seq(Message) /\ replies[c][s] # <<>>
          /\ replies'[c][s] = Tail(replies[c][s])
          /\ \A x \in Servers \ {s} : replies'[c][x] = replies[c][x]
      BY <2>3 DEF DiscardReply, TypeOK
    <3>2. Messages(replies'[c][s]) \subseteq Messages(replies[c][s])
      BY <3>1, ReceiveMessages
    <3>3. \A x \in Servers : Messages(replies'[c][x]) \subseteq Messages(replies[c][x])
      BY <3>1, <3>2
    <3>4. /\ UNCHANGED <<Objname[c], OpnumTable[c], Phase[c], TagValue_var[c],
                         IsOnePhase[c], requests[c], responders[c], floor[c]>>
          /\ completed' = completed
      BY <2>3 DEF DiscardReply, phaseVars, historyVars
    <3> QED
      BY <1>0, <1>1, <2>0, <3>3, <3>4, OrderKept
  <2>4. CASE WriterPutsData(c)
    <3>1. PICK tv : tv = [Tag_var |-> newTag(c), Value |-> <<c, Opnum(c)>>]
      OBVIOUS
    <3>2. HasQuorum(c) /\ Busy(c) /\ StartPutData(c, tv) /\ c \in Writers
          /\ Phase[c] # ABD_PUT_DATA
      BY <2>4, <3>1 DEF WriterPutsData, HasQuorum, ABD_GET_TAG, ABD_PUT_DATA
    <3>3. tv \in TagValue /\ tv.Tag_var \in Tag /\ tv.Tag_var = newTag(c)
      BY <3>1, <3>2, NewTagType
    <3>4. AtLeast(tv.Tag_var, floor[c])
      <4>1. AtLeast(TagValue_var[c].Tag_var, floor[c]) /\ TagValue_var[c].Tag_var \in Tag
        BY <3>2, QuorumAboveFloor, QuorumTag
      <4>2. isGreaterTag(newTag(c), TagValue_var[c].Tag_var)
        BY <4>1 DEF newTag, isGreaterTag, Tag
      <4>3. tv.Tag_var \in AnyTag /\ TagValue_var[c].Tag_var \in AnyTag /\ floor[c] \in AnyTag
        BY <3>3, TagsTyped, InitialTagIsTag
      <4> QED
        BY <3>3, <4>1, <4>2, <4>3, TagTransitive, TagTotal
    <3> QED
      BY <1>1, <2>0, <3>2, <3>3, <3>4, StartPutDataOrder DEF StartPutData, historyVars
  <2>5. CASE ReaderPutsData(c)
    <3>1. PICK tv : tv = TagValue_var[c]
      OBVIOUS
    <3>2. HasQuorum(c) /\ Busy(c) /\ StartPutData(c, tv) /\ Phase[c] # ABD_PUT_DATA
      BY <2>5, <3>1 DEF ReaderPutsData, HasQuorum, ABD_GET_DATA, ABD_PUT_DATA
    <3>3. tv \in TagValue /\ tv.Tag_var \in Tag /\ AtLeast(tv.Tag_var, floor[c])
      BY <3>1, <3>2, QuorumTag, QuorumAboveFloor DEF TypeOK
    <3> QED
      BY <1>1, <2>0, <3>2, <3>3, StartPutDataOrder DEF StartPutData, historyVars
  <2>6. CASE ReadInOnePhase(c) \/ PutDataCompletes(c)
    BY <2>6, EndOperationOrder DEF ReadInOnePhase, PutDataCompletes
  <2>7. CASE emulateNewClient(c)
    BY <1>1, <2>7, IdleOrder DEF emulateNewClient, Busy, historyVars
  <2> QED
    BY <1>2, <2>1, <2>2, <2>3, <2>4, <2>5, <2>6, <2>7 DEF ClientStep
<1>3. ASSUME NEW s \in Servers, NEW c \in Clients, NEW i \in Incarnations,
             ServerStep(s, c, i)
      PROVE  OrderInvOf(c)' /\ CompletedHeld'
  BY <1>0, <1>1, <1>3, ServerStepOrder DEF ServerStep, historyVars
<1>4. ASSUME NEW d \in Clients, UNCHANGED ClientVars(d) PROVE OrderInvOf(d)'
  BY <1>0, <1>4, OrderKept DEF ClientVars
<1>5. ASSUME NEW c \in Clients, OrderInvOf(c)', CompletedHeld',
             \/ ClientStep(c)
             \/ \E s \in Servers, i \in Incarnations : ServerStep(s, c, i)
      PROVE  OrderInv'
  BY <1>4, <1>5, OthersUnchanged DEF OrderInv
<1>6. ASSUME UNCHANGED <<Objname, OpnumTable, Phase, incarnation, phaseVars, requests,
                         replies, historyVars>>
      PROVE  OrderInv'
  BY <1>1, <1>4, <1>6 DEF OrderInv, ClientVars, phaseVars, historyVars
<1>7. ASSUME NEW s \in Servers, KillServer(s) PROVE OrderInv'
  BY <1>6, <1>7 DEF KillServer, netVars
<1>8. ASSUME AllDone \/ UNCHANGED vars PROVE OrderInv'
  BY <1>6, <1>8 DEF AllDone, vars, phaseVars, historyVars
<1> QED
  BY <1>2, <1>3, <1>5, <1>7, <1>8 DEF Next

-----------------------------------------------------------------------------
(* The invariant and what follows from it *)

LEMMA InitInvariant == Init => IInv
<1> SUFFICES ASSUME Init PROVE IInv
  OBVIOUS
<1>1. TypeOK
  BY TypeInit
<1>2. \A c \in Clients : ~ Busy(c)
  BY DEF Init, Busy
<1>3. \A c \in Clients, s \in Servers :
        /\ Messages(replies[c][s]) = {}
        /\ \A i \in Incarnations : Messages(requests[c][i][s]) = {}
  BY DEF Init, Messages
<1>4. \A c \in Clients : Current(c) = {}
  BY <1>2 DEF Current
<1>5. ChannelInv
  BY ZenonT(40), <1>2, <1>3, <1>4
     DEF ChannelInv, ChannelInvOf, InOrder, OneCurrent, Counted, AtMostOne
<1>6. ServerValues
  BY DataTypes DEF Init, ServerValues, Stored, IsWritten
<1>7. LogInv
  BY DEF Init, LogInv
<1>8. ValueInv
  BY <1>2, <1>3, <1>6, <1>7
  DEF ValueInv, ValueInvOf, PhaseOfKind, PairsTravelWritten, WriterTag
<1>9. ASSUME NEW o \in Objects
      PROVE  /\ Servers_names[o] \in Majorities(o)
             /\ \A s \in Servers_names[o] : AtLeast(Stored(o, s), completed[o])
  <2>1. Servers_names[o] # {} /\ IsFiniteSet(Servers_names[o]) /\ Servers_names[o] \subseteq Servers
    <3>1. Servers_names[o] # {}
      BY ServersAssumption
    <3> QED
      BY <3>1, QuorumSize
  <2>2. Cardinality(Servers_names[o]) \in Nat /\ Cardinality(Servers_names[o]) # 0
    BY <2>1, FS_CardinalityType, FS_EmptySet
  <2>3. Cardinality(Servers_names[o]) >= quorum_size(o)
    BY <2>2 DEF quorum_size
  <2>4. \A s \in Servers_names[o] : Stored(o, s) = InitialTag /\ completed[o] = InitialTag
    BY <2>1 DEF Init, Stored, InitialTagValue
  <2> QED
    BY <2>3, <2>4, InitialTagIsTag, TagTotal DEF Majorities
<1>10. OrderInv
  BY <1>2, <1>9 DEF OrderInv, OrderInvOf, QueryInv, PutInv, CompletedHeld
<1> QED
  BY <1>1, <1>5, <1>8, <1>10 DEF IInv

\* IInv holds in every deployment: what TLC checks on three servers.
THEOREM Invariant == Spec => []IInv
<1>1. IInv /\ [Next]_vars => IInv'
  BY TypeInductive, ChannelInductive, ValueInductive, OrderInductive DEF IInv
<1> QED
  BY InitInvariant, <1>1, PTL DEF Spec

\* The count of replies of a phase is a count of distinct servers of the object,
\* although no reply is matched with its sender (client.go 93-100, 239-266).
THEOREM RepliesAreServers == Spec => []OneReplyPerServer
<1>1. IInv => OneReplyPerServer
  BY DEF IInv, ChannelInv, ChannelInvOf, Counted, OneReplyPerServer
<1> QED
  BY <1>1, Invariant, PTL

\* A strict majority of the servers of an object holds at least the tag of
\* every operation on it that has returned (putData, abd.go 84-98).
THEOREM CompletedStored == Spec => []CompletedIsStored
<1>1. IInv => CompletedIsStored
  <2> SUFFICES ASSUME IInv, NEW o \in Objects
               PROVE  2 * Cardinality({s \in Servers_names[o] :
                            AtLeast(Stored(o, s), completed[o])}) > Cardinality(Servers_names[o])
    BY DEF CompletedIsStored, Stored
  <2> DEFINE H == {s \in Servers_names[o] : AtLeast(Stored(o, s), completed[o])}
  <2>1. PICK Q \in Majorities(o) : \A s \in Q : AtLeast(Stored(o, s), completed[o])
    BY DEF IInv, OrderInv, CompletedHeld
  <2>2. /\ Q \subseteq H /\ H \subseteq Servers_names[o] /\ IsFiniteSet(Servers_names[o])
        /\ Cardinality(Q) >= quorum_size(o)
    BY <2>1, QuorumSize DEF Majorities
  <2>3. /\ IsFiniteSet(H) /\ Cardinality(H) \in Nat /\ Cardinality(Q) \in Nat
        /\ Cardinality(Servers_names[o]) \in Nat /\ Cardinality(Q) <= Cardinality(H)
    BY <2>2, FS_Subset, FS_CardinalityType
  <2> HIDE DEF H
  <2>4. 2 * Cardinality(H) > Cardinality(Servers_names[o])
    BY <2>2, <2>3 DEF quorum_size
  <2> QED
    BY <2>4 DEF H
<1> QED
  BY <1>1, Invariant, PTL

\* No operation returns a tag below that of an operation that had returned when
\* it started (safetyAnalyzer.go 144-196).
THEOREM SafetyP1 == Spec => []P1
<1>1. IInv => P1
  BY DEF IInv, ValueInv, LogInv, LogOf, P1, Register!P1, Register!AtLeast, AtLeast,
     Register!isGreaterTag, isGreaterTag
<1> QED
  BY <1>1, Invariant, PTL

\* No two writes of an object have the same tag (safetyAnalyzer.go 210-250).
THEOREM SafetyP2 == Spec => []P2
<1>1. IInv => P2
  BY DEF IInv, ValueInv, LogInv, P2, Register!P2
<1> QED
  BY <1>1, Invariant, PTL

-----------------------------------------------------------------------------
(* The tagged register *)

\* The pairs a read may return, in the register and in the store.
LEMMA RegisterWritten ==
  ASSUME IInv, NEW o \in Objects, NEW tv
  PROVE  tv \in Register!Written(o) <=> IsWritten(o, tv)
<1>1. Register!InitialTagValue = InitialTagValue
  BY DEF Register!InitialTagValue, InitialTagValue, Register!InitialTag, InitialTag
<1>2. Register!NoTagValue = LowestTagValue
  BY DEF Register!NoTagValue, LowestTagValue, Register!LowestTag, LowestTag
<1>3. ASSUME NEW w \in Writers, Objname[w] = o
      PROVE  chosen[w] # LowestTagValue <=> Phase[w] = ABD_PUT_DATA
  <2>1. w \in Clients /\ Busy(w)
    BY <1>3, ObjectsAssumption DEF Clients, Busy
  <2>2. CASE Phase[w] = ABD_PUT_DATA
    <3>1. TagValue_var[w].Tag_var \in Tag
      BY <2>1, <2>2 DEF IInv, ValueInv, ValueInvOf, PhaseOfKind
    <3>2. TagValue_var[w] # LowestTagValue
      BY <3>1 DEF LowestTagValue, LowestTag, Tag
    <3> QED
      BY <2>1, <2>2, <3>2 DEF chosen
  <2>3. CASE Phase[w] # ABD_PUT_DATA
    BY <2>1, <2>3 DEF chosen
  <2> QED
    BY <2>2, <2>3
<1>4. ASSUME NEW w \in Writers, Objname[w] = o, Phase[w] = ABD_PUT_DATA
      PROVE  chosen[w] = TagValue_var[w]
  BY <1>4, ObjectsAssumption DEF chosen, Busy
<1> QED
  BY <1>1, <1>2, <1>3, <1>4 DEF Register!Written, IsWritten

\* A writer keeps its choice as long as it puts, and has none otherwise.
LEMMA ChosenKept ==
  ASSUME NEW S, S \subseteq Writers,
         \A w \in S :
           \/ UNCHANGED <<Objname[w], Phase[w], TagValue_var[w]>>
           \/ /\ Objname[w] = NoObject \/ Phase[w] # ABD_PUT_DATA
              /\ Objname'[w] = NoObject \/ Phase'[w] # ABD_PUT_DATA
  PROVE  \A w \in S : chosen'[w] = chosen[w]
<1> SUFFICES ASSUME NEW w \in S PROVE chosen'[w] = chosen[w]
  OBVIOUS
<1>1. /\ chosen[w] = IF Objname[w] # NoObject /\ Phase[w] = ABD_PUT_DATA
                       THEN TagValue_var[w] ELSE LowestTagValue
      /\ chosen'[w] = IF Objname'[w] # NoObject /\ Phase'[w] = ABD_PUT_DATA
                       THEN TagValue_var'[w] ELSE LowestTagValue
  BY DEF chosen, Busy
<1> QED
  BY <1>1

LEMMA ChosenSame ==
  ASSUME \A w \in Writers : chosen'[w] = chosen[w]
  PROVE  chosen' = chosen
BY DEF chosen

\* The steps the register does not see.
LEMMA Stutters ==
  ASSUME UNCHANGED <<Objname, floor, completed, log>>,
         \A w \in Writers :
           \/ UNCHANGED <<Phase[w], TagValue_var[w]>>
           \/ Phase[w] # ABD_PUT_DATA /\ Phase'[w] # ABD_PUT_DATA
  PROVE  UNCHANGED Register!vars
<1>1. \A w \in Writers : chosen'[w] = chosen[w]
  BY ChosenKept
<1> QED
  BY <1>1, ChosenSame DEF Register!vars

LEMMA InitRefines == Init => Register!Init
<1> SUFFICES ASSUME Init PROVE Register!Init
  OBVIOUS
<1>1. chosen = [w \in Writers |-> LowestTagValue]
  BY DEF Init, chosen, Busy, Clients
<1> QED
  BY <1>1 DEF Init, Register!Init, Register!Clients, Clients, Register!InitialTag, InitialTag,
     Register!NoTagValue, LowestTagValue, Register!LowestTag, LowestTag

LEMMA StartOperationRefines ==
  ASSUME IInv, NEW c \in Clients, NEW o \in Objects, NEW phase, phase # ABD_PUT_DATA,
         StartOperation(c, o, phase), ClientStep(c)
  PROVE  Register!Begin(c, o)
<1>1. \A d \in Clients \ {c} : UNCHANGED <<Objname[d], Phase[d], TagValue_var[d]>>
  BY OthersUnchanged DEF IInv, ClientVars
<1>2. Objname[c] = NoObject /\ Phase'[c] = phase
  BY DEF StartOperation, Busy, EnterPhase, IInv, TypeOK
<1>3. \A w \in Writers : chosen'[w] = chosen[w]
  BY <1>1, <1>2, ChosenKept DEF Clients
<1> QED
  BY <1>2, <1>3, ChosenSame DEF Register!Begin, StartOperation

\* The tag of a write is new: another writer signs with another name, and the
\* writer's own earlier tags are below its floor.
LEMMA NewTagIsNew ==
  ASSUME IInv, NEW w \in Writers, NEW o \in Objects, Objname[w] = o,
         Phase[w] # ABD_PUT_DATA,
         NEW tag \in Tag, tag.Version_num > 0, isGreaterTag(tag, floor[w]),
         \E i \in Incarnations : tag.Client_id = NameTag[w][i],
         NEW y, IsWritten(o, y)
  PROVE  y.Tag_var # tag
<1> SUFFICES ASSUME y.Tag_var = tag PROVE FALSE
  OBVIOUS
<1>1. w \in Clients
  BY DEF Clients
<1>2. CASE y = InitialTagValue
  BY <1>2 DEF InitialTagValue, InitialTag
<1>3. ASSUME NEW e \in log[o], e.client \in Writers, e.TagValue_var = y
      PROVE  FALSE
  <2>1. LogOf(o, e)
    BY DEF IInv, ValueInv, LogInv
  <2>2. e.client = w
    BY <1>3, <2>1, NameTagAssumption DEF LogOf
  <2>3. AtLeast(floor[w], tag)
    BY <1>3, <2>1, <2>2 DEF LogOf
  <2>4. tag \in AnyTag /\ floor[w] \in AnyTag
    BY <1>1, InitialTagIsTag DEF IInv, TypeOK
  <2> QED
    BY <2>3, <2>4, TagTotal
<1>4. ASSUME NEW x \in Writers, Objname[x] = o, Phase[x] = ABD_PUT_DATA, TagValue_var[x] = y
      PROVE  FALSE
  <2>1. x \in Clients /\ Busy(x)
    BY <1>4, ObjectsAssumption DEF Clients, Busy
  <2>2. PICK j \in Incarnations : tag.Client_id = NameTag[x][j]
    BY <1>4, <2>1 DEF IInv, ValueInv, ValueInvOf, WriterTag
  <2>3. PICK i \in Incarnations : tag.Client_id = NameTag[w][i]
    OBVIOUS
  <2>4. NameTag[x][j] = NameTag[w][i]
    BY <2>2, <2>3
  <2>5. x = w
    BY <2>4, NameTagAssumption
  <2> QED
    BY <1>4, <2>5
<1> QED
  BY <1>2, <1>3, <1>4 DEF IsWritten

LEMMA WriterPutsDataRefines ==
  ASSUME IInv, IInv', NEW w \in Writers, WriterPutsData(w), ClientStep(w)
  PROVE  Register!Choose(w)
<1>1. w \in Clients /\ HasQuorum(w) /\ Busy(w) /\ Phase[w] = ABD_GET_TAG
  BY DEF WriterPutsData, HasQuorum, Clients
<1>2. PICK o \in Objects : o = Objname[w]
  BY <1>1, QuorumTag
<1>3. PICK tv : tv = [Tag_var |-> newTag(w), Value |-> <<w, Opnum(w)>>]
  OBVIOUS
<1>4. /\ EnterPhase(w, ABD_PUT_DATA, tv)
      /\ UNCHANGED <<Objname, OpnumTable, incarnation, floor, completed, log>>
  BY <1>3 DEF WriterPutsData, StartPutData, historyVars
<1>5. Phase'[w] = ABD_PUT_DATA /\ TagValue_var'[w] = tv
  BY <1>1, <1>4 DEF EnterPhase, IInv, TypeOK
<1>6. chosen[w] = LowestTagValue /\ chosen'[w] = tv
  <2>1. ABD_GET_TAG # ABD_PUT_DATA
    BY DEF ABD_GET_TAG, ABD_PUT_DATA
  <2>2. Busy(w)'
    BY <1>1, <1>4 DEF Busy
  <2> QED
    BY <1>1, <1>5, <2>1, <2>2 DEF chosen
<1>7. \A d \in Writers \ {w} : chosen'[d] = chosen[d]
  <2>1. \A d \in Clients \ {w} : UNCHANGED <<Objname[d], Phase[d], TagValue_var[d]>>
    BY <1>1, OthersUnchanged DEF IInv, ClientVars
  <2> QED
    BY <2>1, ChosenKept DEF Clients
<1>8. chosen' = [chosen EXCEPT ![w] = chosen'[w]]
  BY <1>7 DEF chosen
<1>9. /\ newTag(w).Version_num \in Nat \ {0}
      /\ newTag(w).Client_id \in {NameTag[w][i] : i \in Incarnations}
      /\ newTag(w) = [Version_num |-> newTag(w).Version_num, Client_id |-> newTag(w).Client_id]
  <2>1. TagValue_var[w].Tag_var.Version_num \in Nat
    BY <1>1, QuorumTag DEF Tag
  <2> QED
    BY <1>1, <2>1 DEF newTag, IInv, TypeOK
<1>10. newTag(w) \in Tag
  BY <1>9, NameTagAssumption DEF Tag
<1>11. <<w, Opnum(w)>> \in Values
  <2>1. Opnum(w) \in 1..MaxOpnum[w]
    BY <1>1, <1>2, BoundsAssumption DEF IInv, TypeOK, Opnum
  <2> QED
    BY <2>1 DEF Values
<1>12. isGreaterTag(newTag(w), floor[w])
  <2>1. WriterTag(w)'
    BY <1>1 DEF IInv, ValueInv, ValueInvOf
  <2>2. isGreaterTag(TagValue_var'[w].Tag_var, floor'[w])
    BY <1>1, <1>4, <1>5, <2>1 DEF WriterTag, Busy
  <2> QED
    BY <1>3, <1>4, <1>5, <2>2
<1>13. \A y \in Register!Written(Objname[w]) : y.Tag_var # newTag(w)
  <2>1. Phase[w] # ABD_PUT_DATA
    BY <1>1 DEF ABD_GET_TAG, ABD_PUT_DATA
  <2>2. newTag(w).Version_num > 0
    BY <1>9
  <2> QED
    BY <1>2, <1>9, <1>10, <1>12, <2>1, <2>2, NewTagIsNew, RegisterWritten
<1>14. tv \in [Tag_var : [Version_num : Nat \ {0},
                          Client_id : {NameTag[w][i] : i \in Incarnations}],
               Value : Values]
  BY <1>3, <1>9, <1>11
<1> QED
  BY <1>1, <1>3, <1>4, <1>6, <1>8, <1>12, <1>13, <1>14
     DEF Register!Choose, Busy, Register!NoTagValue, LowestTagValue, Register!LowestTag, LowestTag,
     Register!isGreaterTag, isGreaterTag

\* A read returns the initial pair or a pair that a write put
\* (safetyAnalyzer.go 263-324).
THEOREM SafetyP3 == Spec => []P3
<1>1. IInv => P3
  BY RegisterWritten DEF IInv, ValueInv, LogInv, LogOf, P3, Register!P3
<1> QED
  BY <1>1, Invariant, PTL

\* What a client returns is the choice of its write, or a written pair above
\* the floor of its read.
LEMMA EndOperationRefines ==
  ASSUME IInv, NEW c \in Clients, HasQuorum(c), EndOperation(c), ClientStep(c),
         c \in Writers => Phase[c] = ABD_PUT_DATA
  PROVE  \/ Register!EndWrite(c) /\ c \in Writers
         \/ Register!EndRead(c) /\ c \in Readers
<1>1. Busy(c) /\ Objname[c] # NoObject
  BY DEF HasQuorum, Busy
<1>2. PICK o \in Objects : o = Objname[c]
  BY QuorumTag
<1>3. Objname'[c] = NoObject
  BY DEF EndOperation, IInv, TypeOK
<1>4. \A d \in Clients \ {c} : UNCHANGED <<Objname[d], Phase[d], TagValue_var[d]>>
  BY OthersUnchanged DEF IInv, ClientVars
<1>5. \A w \in Writers \ {c} : chosen'[w] = chosen[w]
  BY <1>4, ChosenKept DEF Clients
<1>6. Register!End(c, TagValue_var[c])
  BY DEF Register!End, EndOperation, Register!LargerTag, LargerTag,
     Register!isGreaterTag, isGreaterTag
<1>7. CASE c \in Writers
  <2>1. chosen[c] = TagValue_var[c]
    BY <1>1, <1>7 DEF chosen
  <2>2. chosen[c] # LowestTagValue
    BY <2>1, QuorumTag DEF LowestTagValue, LowestTag, Tag
  <2>3. chosen'[c] = LowestTagValue
    BY <1>3, <1>7 DEF chosen, Busy
  <2>4. chosen' = [chosen EXCEPT ![c] = LowestTagValue]
    BY <1>5, <2>3 DEF chosen
  <2> QED
    BY <1>1, <1>6, <1>7, <2>1, <2>2, <2>4 DEF Register!EndWrite, Register!NoTagValue,
       LowestTagValue, Register!LowestTag, LowestTag
<1>8. CASE c \in Readers
  <2>1. chosen' = chosen
    BY <1>5, <1>8, ClientsAssumption, ChosenSame
  <2>2. IsWritten(o, TagValue_var[c])
    <3>1. responders[c] # {}
      BY QuorumTag
    <3> QED
      BY <1>1, <1>2, <1>8, <3>1 DEF IInv, ValueInv, ValueInvOf, PairsTravelWritten
  <2>3. TagValue_var[c] \in Register!Written(Objname[c])
    BY <1>2, <2>2, RegisterWritten
  <2>4. Register!AtLeast(TagValue_var[c].Tag_var, floor[c])
    BY QuorumAboveFloor DEF Register!AtLeast, AtLeast, Register!isGreaterTag, isGreaterTag
  <2> QED
    BY <1>1, <1>6, <1>8, <2>1, <2>3, <2>4 DEF Register!EndRead
<1> QED
  BY <1>7, <1>8 DEF Clients

LEMMA ClientStepRefines ==
  ASSUME IInv, IInv', NEW c \in Clients, ClientStep(c)
  PROVE  [Register!Next]_(Register!vars)
<1>0. /\ ABD_GET_TAG # ABD_PUT_DATA /\ ABD_GET_DATA # ABD_PUT_DATA
      /\ Register!Clients = Clients
  BY DEF ABD_GET_TAG, ABD_GET_DATA, ABD_PUT_DATA, Register!Clients, Clients
<1>1. \A d \in Clients \ {c} : UNCHANGED <<Objname[d], Phase[d], TagValue_var[d]>>
  BY OthersUnchanged DEF IInv, ClientVars
<1>2. ASSUME NEW o \in Objects, StartRead(c, o) \/ StartWrite(c, o)
      PROVE  Register!Next
  <2>1. Register!Begin(c, o)
    BY <1>0, <1>2, StartOperationRefines DEF StartRead, StartWrite
  <2> QED
    BY <1>0, <2>1 DEF Register!Next
<1>3. ASSUME NEW s \in Servers, CollectReply(c, s)
      PROVE  UNCHANGED Register!vars
  <2>1. UNCHANGED <<Objname, floor, completed, log, Phase>>
    BY <1>3 DEF CollectReply, historyVars
  <2>2. Phase[c] = ABD_PUT_DATA => TagValue_var' = TagValue_var
    BY <1>3 DEF CollectReply
  <2> QED
    BY <1>1, <2>1, <2>2, Stutters DEF Clients
<1>4. ASSUME UNCHANGED <<Objname, floor, completed, log, Phase, TagValue_var>>
      PROVE  UNCHANGED Register!vars
  BY <1>4, Stutters
<1>5. CASE WriterPutsData(c)
  BY <1>5, WriterPutsDataRefines DEF Register!Next, WriterPutsData
<1>6. CASE ReaderPutsData(c)
  <2>1. UNCHANGED <<Objname, floor, completed, log>> /\ c \notin Writers
    BY <1>6, ClientsAssumption DEF ReaderPutsData, StartPutData, historyVars
  <2> QED
    BY <1>1, <2>1, Stutters DEF Clients
<1>7. CASE ReadInOnePhase(c) \/ PutDataCompletes(c)
  <2>1. HasQuorum(c) /\ EndOperation(c) /\ (c \in Writers => Phase[c] = ABD_PUT_DATA)
    BY <1>7, ClientsAssumption DEF ReadInOnePhase, PutDataCompletes
  <2> QED
    BY <2>1, EndOperationRefines DEF Register!Next
<1>8. ASSUME NEW s \in Servers, DiscardReply(c, s) PROVE UNCHANGED Register!vars
  BY <1>4, <1>8 DEF DiscardReply, historyVars, phaseVars
<1>9. CASE emulateNewClient(c)
  BY <1>4, <1>9 DEF emulateNewClient, historyVars, phaseVars
<1> QED
  BY <1>2, <1>3, <1>5, <1>6, <1>7, <1>8, <1>9 DEF ClientStep

LEMMA StepRefines ==
  ASSUME IInv, IInv', [Next]_vars
  PROVE  [Register!Next]_(Register!vars)
<1>1. ASSUME UNCHANGED <<Objname, floor, completed, log, Phase, TagValue_var>>
      PROVE  UNCHANGED Register!vars
  BY <1>1, Stutters
<1>2. ASSUME NEW s \in Servers, NEW c \in Clients, NEW i \in Incarnations,
             ServerStep(s, c, i)
      PROVE  UNCHANGED Register!vars
  BY <1>1, <1>2 DEF ServerStep, historyVars, phaseVars
<1>3. ASSUME NEW s \in Servers, KillServer(s) PROVE UNCHANGED Register!vars
  BY <1>1, <1>3 DEF KillServer, historyVars, phaseVars
<1>4. ASSUME AllDone \/ UNCHANGED vars PROVE UNCHANGED Register!vars
  BY <1>1, <1>4 DEF AllDone, vars
<1> QED
  BY <1>2, <1>3, <1>4, ClientStepRefines DEF Next

\* The store implements the tagged register: ABD and ABD_FAST promise their
\* clients no less than what the analyzer checks, whatever is lost, killed or
\* restarted (abd.go 32-98, 133-181, 236-335).
THEOREM Refinement == Spec => ImplementsRegister
<1>1. Init => Register!Init
  BY InitRefines
<1>2. IInv /\ IInv' /\ [Next]_vars => [Register!Next]_(Register!vars)
  BY StepRefines
<1> QED
  BY <1>1, <1>2, Invariant, PTL DEF Spec, ImplementsRegister, Register!Spec
=============================================================================
