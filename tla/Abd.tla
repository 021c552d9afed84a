--------------------------------- MODULE Abd ---------------------------------
(***************************************************************************)
(* The replicated algorithms ABD and ABD_FAST (abd.go), run by the client  *)
(* loop (client.go, client_application.go) against the servers (server.go).*)
(*                                                                         *)
(* A client owns one DEALER socket per server and executes one operation   *)
(* at a time; a server handles one message at a time.  requests and        *)
(* replies are the two directions of these sockets, each first-in          *)
(* first-out.  Sends are NON_BLOCKING with the error ignored, so a request *)
(* may be lost at the sender (bounded by MaxDrops).  Servers keep their    *)
(* state in memory and can be killed (bounded by MaxKilled).  A client     *)
(* that "fails" goes on between two operations as a new incarnation with   *)
(* new sockets; what servers still send to the old ones is never read.     *)
(***************************************************************************)
EXTENDS Tags, Sequences, FiniteSets

CONSTANTS
  Readers, Writers, Servers, Objects,
  Servers_names,   \* Servers_names[o]: the servers of object o (ObjParams)
  NameTag,         \* NameTag[w][i]: rank of the id "w-i" of incarnation i
  Fast,            \* TRUE for ABD_FAST, FALSE for ABD
  NoObject,        \* the object of a client that executes no operation
  MaxOpnum,        \* bound: MaxOpnum[c] operations of client c on each object
  MaxIncarnation,  \* bound: restarts of one client
  MaxDrops,        \* bound: requests lost at the sender
  MaxKilled        \* bound: servers killed

Clients == Readers \cup Writers
Incarnations == 0..MaxIncarnation

ASSUME ClientsAssumption == Readers \cap Writers = {}
ASSUME ServersAssumption ==
  /\ IsFiniteSet(Servers)
  /\ Servers_names \in [Objects -> (SUBSET Servers) \ {{}}]
ASSUME NameTagAssumption ==     \* ids of different clients or incarnations differ
  /\ NameTag \in [Writers -> [Incarnations -> Nat \ {0}]]
  /\ \A v, w \in Writers, i, j \in Incarnations :
       NameTag[v][i] = NameTag[w][j] => v = w /\ i = j
ASSUME ObjectsAssumption == NoObject \notin Objects
ASSUME BoundsAssumption ==
  /\ Fast \in BOOLEAN
  /\ MaxOpnum \in [Clients -> Nat] /\ MaxIncarnation \in Nat
  /\ MaxDrops \in Nat /\ MaxKilled \in Nat

VARIABLES
  tagCodedElement_var,  \* [Objects -> [Servers -> TagValue]], in server memory
  killed,               \* servers whose process has exited
  Objname,              \* the object of the current operation, or NoObject
  OpnumTable,           \* operations each client has started on each object
  Phase,                \* the phase each client is in, or was in last
  incarnation,
  num_responses,        \* useful replies counted in the current phase
  TagValue_var,         \* largest pair received, then the pair being put
  IsOnePhase,           \* all tags received so far are equal
  requests,             \* [Clients -> [Incarnations -> [Servers -> Seq(Message)]]]
  replies,              \* [Clients -> [Servers -> Seq(Message)]], current sockets
  drops,                \* requests lost so far
  responders,           \* history: the servers whose replies were counted
  floor,                \* history: completed[o] when the operation began
  completed,            \* history: largest tag of the operations that ended
  log                   \* history: the FOR_SAFETY_CHECK lines, per object

serverVars == <<tagCodedElement_var, killed>>
phaseVars == <<num_responses, TagValue_var, IsOnePhase, responders>>
netVars == <<requests, replies, drops>>
historyVars == <<floor, completed, log>>
vars == <<tagCodedElement_var, killed, Objname, OpnumTable, Phase, incarnation,
          num_responses, TagValue_var, IsOnePhase, requests, replies, drops,
          responders, floor, completed, log>>

-----------------------------------------------------------------------------
(* Data *)

ABD_GET_TAG == "getTag"
ABD_GET_DATA == "getData"
ABD_PUT_DATA == "putData"
Phases == {ABD_GET_TAG, ABD_GET_DATA, ABD_PUT_DATA}

\* A value is named by the write that stores it; NoValue is the empty slice.
NoValue == <<>>
Values == UNION {{w} \X (1..MaxOpnum[w]) : w \in Writers}
TagValue == [Tag_var : AnyTag, Value : Values \cup {NoValue}]
LowestTagValue == [Tag_var |-> LowestTag, Value |-> NoValue]
InitialTagValue == [Tag_var |-> InitialTag, Value |-> NoValue]

Message == [Objname : Objects, Opnum : Nat, Phase : Phases, TagValue_var : TagValue]

\* Mutants: waiting for half of the servers, or for all of them.
quorum_size_half(o) == Cardinality(Servers_names[o]) \div 2
quorum_size_all(o) == Cardinality(Servers_names[o])

\* math.Ceil((n + 1) / 2.0) of getData, getTag and putData
quorum_size(o) == (Cardinality(Servers_names[o]) + 2) \div 2

Opnum(c) == OpnumTable[c][Objname[c]]

Busy(c) == Objname[c] # NoObject
AwaitsReplies(c) == Busy(c) /\ num_responses[c] < quorum_size(Objname[c])
HasQuorum(c) == Busy(c) /\ num_responses[c] = quorum_size(Objname[c])

\* Mutants: a header check that forgets one of its fields.
isMessageUseful_noOpnum(c, m) == m.Objname = Objname[c] /\ m.Phase = Phase[c]
isMessageUseful_noPhase(c, m) == m.Opnum = Opnum(c) /\ m.Objname = Objname[c]

\* The header check before a reply is counted; it does not look at the sender.
isMessageUseful(c, m) ==
  /\ m.Opnum = Opnum(c)
  /\ m.Objname = Objname[c]
  /\ m.Phase = Phase[c]

-----------------------------------------------------------------------------
Init ==
  /\ tagCodedElement_var = [o \in Objects |-> [s \in Servers |-> InitialTagValue]]
  /\ killed = {}
  /\ Objname = [c \in Clients |-> NoObject]
  /\ OpnumTable = [c \in Clients |-> [o \in Objects |-> 0]]
  /\ Phase = [c \in Clients |-> ABD_PUT_DATA]
  /\ incarnation = [c \in Clients |-> 0]
  /\ num_responses = [c \in Clients |-> 0]
  /\ TagValue_var = [c \in Clients |-> LowestTagValue]
  /\ IsOnePhase = [c \in Clients |-> TRUE]
  /\ requests = [c \in Clients |-> [i \in Incarnations |-> [s \in Servers |-> <<>>]]]
  /\ replies = [c \in Clients |-> [s \in Servers |-> <<>>]]
  /\ drops = 0
  /\ responders = [c \in Clients |-> {}]
  /\ floor = [c \in Clients |-> InitialTag]
  /\ completed = [o \in Objects |-> InitialTag]
  /\ log = [o \in Objects |-> {}]

-----------------------------------------------------------------------------
(* Clients *)

\* QueryServers and WriteToServers: one message to every server of the object;
\* a send that would block is dropped.
SendToServers(c, m) ==
  \E lost \in SUBSET Servers_names[m.Objname] :
    /\ drops + Cardinality(lost) <= MaxDrops
    /\ drops' = drops + Cardinality(lost)
    /\ requests' = [requests EXCEPT ![c][incarnation[c]] =
         [s \in Servers |-> IF s \in Servers_names[m.Objname] \ lost
                              THEN Append(@[s], m) ELSE @[s]]]

\* A phase begins with no reply counted and with the pair tv: the lowest one
\* for a query, the pair to store for a put.
EnterPhase(c, phase, tv) ==
  /\ Phase' = [Phase EXCEPT ![c] = phase]
  /\ TagValue_var' = [TagValue_var EXCEPT ![c] = tv]
  /\ num_responses' = [num_responses EXCEPT ![c] = 0]
  /\ IsOnePhase' = [IsOnePhase EXCEPT ![c] = TRUE]
  /\ responders' = [responders EXCEPT ![c] = {}]

\* The client takes one token from its channel for each operation.
OperationAsked(c, o) == OpnumTable[c][o] < MaxOpnum[c]

\* doARead / doAWrite up to the first broadcast.
StartOperation(c, o, phase) ==
  /\ ~ Busy(c)
  /\ OperationAsked(c, o)
  /\ Objname' = [Objname EXCEPT ![c] = o]
  /\ OpnumTable' = [OpnumTable EXCEPT ![c][o] = @ + 1]
  /\ floor' = [floor EXCEPT ![c] = completed[o]]
  /\ EnterPhase(c, phase, LowestTagValue)
  /\ SendToServers(c, [Objname |-> o, Opnum |-> OpnumTable[c][o] + 1, Phase |-> phase,
       TagValue_var |-> [Tag_var |-> [Version_num |-> 0, Client_id |-> 0],
                         Value |-> NoValue]])
  /\ UNCHANGED <<tagCodedElement_var, killed, incarnation, replies, completed, log>>

StartRead(r, o) == r \in Readers /\ StartOperation(r, o, ABD_GET_DATA)
StartWrite(w, o) == w \in Writers /\ StartOperation(w, o, ABD_GET_TAG)

\* One turn of the loop of ReceiveMessagesFromQuorum that counts a reply.  The
\* maximum and the one-phase test of getTag and getData, which loop over the
\* counted replies, are computed as the replies come in.
CollectReply(c, s) ==
  /\ AwaitsReplies(c)
  /\ replies[c][s] # <<>>
  /\ isMessageUseful(c, Head(replies[c][s]))
  /\ LET tv == Head(replies[c][s]).TagValue_var IN
       IF Phase[c] = ABD_PUT_DATA
         THEN UNCHANGED <<TagValue_var, IsOnePhase>>
         ELSE /\ TagValue_var' = [TagValue_var EXCEPT ![c] =
                   IF IsSmallerThan(@.Tag_var, tv.Tag_var) THEN tv ELSE @]
              /\ IsOnePhase' = [IsOnePhase EXCEPT ![c] =
                   @ /\ (num_responses[c] > 0 => tv.Tag_var = TagValue_var[c].Tag_var)]
  /\ num_responses' = [num_responses EXCEPT ![c] = @ + 1]
  /\ responders' = [responders EXCEPT ![c] = @ \cup {s}]
  /\ replies' = [replies EXCEPT ![c][s] = Tail(@)]
  /\ UNCHANGED <<serverVars, Objname, OpnumTable, Phase, incarnation, requests,
                 drops, historyVars>>

\* A reply received and not counted: it is not useful, or the quorum is already
\* complete, or the client is between operations (clearIncomingChannels, which
\* stops when nothing has arrived for a moment: any prefix may be drained).
DiscardReply(c, s) ==
  /\ replies[c][s] # <<>>
  /\ AwaitsReplies(c) => ~ isMessageUseful(c, Head(replies[c][s]))
  /\ replies' = [replies EXCEPT ![c][s] = Tail(@)]
  /\ UNCHANGED <<serverVars, Objname, OpnumTable, Phase, incarnation, phaseVars,
                 requests, drops, historyVars>>

\* putData up to the wait for the acknowledgements.
StartPutData(c, tv) ==
  /\ EnterPhase(c, ABD_PUT_DATA, tv)
  /\ SendToServers(c, [Objname |-> Objname[c], Opnum |-> Opnum(c),
                       Phase |-> ABD_PUT_DATA, TagValue_var |-> tv])
  /\ UNCHANGED <<serverVars, Objname, OpnumTable, incarnation, replies, historyVars>>

\* Mutant: the id of the previous writer is kept.
newTag_sameId(w) ==
  [TagValue_var[w].Tag_var EXCEPT !.Version_num = @ + 1]

\* The tag of a write: the next version, under the writer's current name.
newTag(w) ==
  [Version_num |-> TagValue_var[w].Tag_var.Version_num + 1,
   Client_id |-> NameTag[w][incarnation[w]]]

\* write_ABD between its two phases.
WriterPutsData(w) ==
  /\ w \in Writers /\ HasQuorum(w) /\ Phase[w] = ABD_GET_TAG
  /\ StartPutData(w, [Tag_var |-> newTag(w), Value |-> <<w, Opnum(w)>>])

\* read_ABD between its two phases, and read_ABD_FAST when the tags differed.
ReaderPutsData(r) ==
  /\ r \in Readers /\ HasQuorum(r) /\ Phase[r] = ABD_GET_DATA
  /\ ~ (Fast /\ IsOnePhase[r])
  /\ StartPutData(r, TagValue_var[r])

\* The operation returns and is logged; the counters of its last phase, which
\* nothing reads again, are cleared.
EndOperation(c) ==
  /\ completed' = [completed EXCEPT ![Objname[c]] =
       LargerTag(TagValue_var[c].Tag_var, @)]
  /\ log' = [log EXCEPT ![Objname[c]] = @ \cup
       {[client |-> c, floor |-> floor[c], TagValue_var |-> TagValue_var[c]]}]
  /\ Objname' = [Objname EXCEPT ![c] = NoObject]
  /\ EnterPhase(c, ABD_PUT_DATA, LowestTagValue)
  /\ UNCHANGED <<serverVars, OpnumTable, incarnation, netVars, floor>>

\* Mutant: ABD_FAST never writes back, whatever the tags.
ReadInOnePhase_anyTags(r) ==
  /\ r \in Readers /\ HasQuorum(r) /\ Phase[r] = ABD_GET_DATA
  /\ Fast
  /\ EndOperation(r)

ReadInOnePhase(r) ==
  /\ r \in Readers /\ HasQuorum(r) /\ Phase[r] = ABD_GET_DATA
  /\ Fast /\ IsOnePhase[r]
  /\ EndOperation(r)

PutDataCompletes(c) ==
  /\ HasQuorum(c) /\ Phase[c] = ABD_PUT_DATA
  /\ EndOperation(c)

\* hasFailed between two operations: a new name, new sockets and a new poller.
\* The old sockets stay open, so what they still hold reaches the servers.
emulateNewClient(c) ==
  /\ ~ Busy(c)
  /\ incarnation[c] < MaxIncarnation
  /\ incarnation' = [incarnation EXCEPT ![c] = @ + 1]
  /\ replies' = [replies EXCEPT ![c] = [s \in Servers |-> <<>>]]
  /\ UNCHANGED <<serverVars, Objname, OpnumTable, Phase, phaseVars, requests,
                 drops, historyVars>>

-----------------------------------------------------------------------------
(* Servers *)

\* The reply is the request with another pair; it goes to the socket the
\* request came from, which is polled only if it is the client's current one.
Replies(s, c, i, m, tv) ==
  replies' = IF i = incarnation[c]
               THEN [replies EXCEPT ![c][s] = Append(@, [m EXCEPT !.TagValue_var = tv])]
               ELSE replies

\* Mutant: the payload is cleared before it is stored.
stored_empty(old, new) ==
  IF isGreaterTag(new.Tag_var, old.Tag_var) THEN [new EXCEPT !.Value = NoValue] ELSE old

\* What a server holds after it was asked to put a pair.
stored(old, new) == IF isGreaterTag(new.Tag_var, old.Tag_var) THEN new ELSE old

getTagResp(s, c, i, m) ==
  /\ m.Phase = ABD_GET_TAG
  /\ Replies(s, c, i, m, [Tag_var |-> tagCodedElement_var[m.Objname][s].Tag_var,
                          Value |-> m.TagValue_var.Value])
  /\ UNCHANGED tagCodedElement_var

getDataResp(s, c, i, m) ==
  /\ m.Phase = ABD_GET_DATA
  /\ Replies(s, c, i, m, tagCodedElement_var[m.Objname][s])
  /\ UNCHANGED tagCodedElement_var

putDataResp(s, c, i, m) ==
  /\ m.Phase = ABD_PUT_DATA
  /\ tagCodedElement_var' = [tagCodedElement_var EXCEPT ![m.Objname][s] =
       stored(@, m.TagValue_var)]
  /\ Replies(s, c, i, m, [m.TagValue_var EXCEPT !.Value = NoValue])

\* server_worker handles the next message from the socket of incarnation i of c.
ServerStep(s, c, i) ==
  /\ s \notin killed
  /\ requests[c][i][s] # <<>>
  /\ requests' = [requests EXCEPT ![c][i][s] = Tail(@)]
  /\ LET m == Head(requests[c][i][s]) IN
       getTagResp(s, c, i, m) \/ getDataResp(s, c, i, m) \/ putDataResp(s, c, i, m)
  /\ UNCHANGED <<killed, Objname, OpnumTable, Phase, incarnation, phaseVars,
                 drops, historyVars>>

\* KillSelf: the process exits; nothing restarts it.
KillServer(s) ==
  /\ s \notin killed
  /\ Cardinality(killed) < MaxKilled
  /\ killed' = killed \cup {s}
  /\ UNCHANGED <<tagCodedElement_var, Objname, OpnumTable, Phase, incarnation,
                 phaseVars, netVars, historyVars>>

-----------------------------------------------------------------------------
ClientStep(c) ==
  \/ \E o \in Objects : StartRead(c, o) \/ StartWrite(c, o)
  \/ \E s \in Servers : CollectReply(c, s) \/ DiscardReply(c, s)
  \/ WriterPutsData(c) \/ ReaderPutsData(c)
  \/ ReadInOnePhase(c) \/ PutDataCompletes(c)
  \/ emulateNewClient(c)

\* Every client has executed the operations it was asked for.
AllDone ==
  /\ \A c \in Clients : ~ Busy(c) /\ \A o \in Objects : OpnumTable[c][o] = MaxOpnum[c]
  /\ UNCHANGED vars

Next ==
  \/ \E c \in Clients : ClientStep(c)
  \/ \E s \in Servers, c \in Clients, i \in Incarnations : ServerStep(s, c, i)
  \/ \E s \in Servers : KillServer(s)
  \/ AllDone

Spec == Init /\ [][Next]_vars

\* A live server serves every socket (the ROUTER takes messages in turn), and a
\* client polls all its sockets and returns from its phases.  Nothing obliges a
\* client to start an operation or to fail, or a server to be killed.
Fairness ==
  /\ \A s \in Servers, c \in Clients, i \in Incarnations :
       WF_vars(ServerStep(s, c, i))
  /\ \A c \in Clients, s \in Servers :
       WF_vars(CollectReply(c, s)) /\ WF_vars(DiscardReply(c, s))
  /\ \A c \in Clients :
       WF_vars(WriterPutsData(c) \/ ReaderPutsData(c)
               \/ ReadInOnePhase(c) \/ PutDataCompletes(c))

FairSpec == Spec /\ Fairness
-----------------------------------------------------------------------------
(* Properties *)

TypeOK ==
  /\ tagCodedElement_var \in [Objects -> [Servers -> TagValue]]
  /\ killed \subseteq Servers
  /\ Objname \in [Clients -> Objects \cup {NoObject}]
  /\ OpnumTable \in [Clients -> [Objects -> Nat]]
  /\ \A c \in Clients, o \in Objects : OpnumTable[c][o] <= MaxOpnum[c]
  /\ \A c \in Clients : Busy(c) => Opnum(c) >= 1
  /\ Phase \in [Clients -> Phases]
  /\ incarnation \in [Clients -> Incarnations]
  /\ num_responses \in [Clients -> Nat]
  /\ TagValue_var \in [Clients -> TagValue]
  /\ IsOnePhase \in [Clients -> BOOLEAN]
  /\ requests \in [Clients -> [Incarnations -> [Servers -> Seq(Message)]]]
  /\ replies \in [Clients -> [Servers -> Seq(Message)]]
  /\ drops \in 0..MaxDrops
  /\ responders \in [Clients -> SUBSET Servers]
  /\ floor \in [Clients -> Tag]
  /\ completed \in [Objects -> Tag]
  /\ log \in [Objects -> SUBSET [client : Clients, floor : Tag, TagValue_var : TagValue]]

\* A phase waits for replies of a quorum but counts messages without looking at
\* their sender (client.go 93-100, 239-266): the count is a count of servers
\* only because no server's reply to an older request passes for a new one.
OneReplyPerServer ==
  \A c \in Clients : Busy(c) => num_responses[c] = Cardinality(responders[c])

\* putData waits for a majority (abd.go 84-98): the tag of an operation that has
\* ended is stored, or superseded, at a majority of the servers of the object,
\* whatever is still in flight.  One-phase reads rely on it without a putData.
CompletedIsStored ==
  \A o \in Objects :
    2 * Cardinality({s \in Servers_names[o] :
          AtLeast(tagCodedElement_var[o][s].Tag_var, completed[o])})
      > Cardinality(Servers_names[o])

\* A server never goes back to a smaller tag (abd.go 173-181), nor changes the
\* value stored under a tag, whatever late put of an old operation it handles.
ServersMoveForward ==
  [][\A o \in Objects, s \in Servers :
       \/ tagCodedElement_var'[o][s] = tagCodedElement_var[o][s]
       \/ isGreaterTag(tagCodedElement_var'[o][s].Tag_var,
                       tagCodedElement_var[o][s].Tag_var)]_tagCodedElement_var

\* The pair each writer is putting, once it has chosen its tag.
chosen == [w \in Writers |->
  IF Busy(w) /\ Phase[w] = ABD_PUT_DATA THEN TagValue_var[w] ELSE LowestTagValue]

\* The store implements the tagged register: the operations in progress and the
\* log of the ended ones are those of TaggedRegister, which chooses the tag of a
\* write when ABD leaves its first phase (abd.go 133-153).
Register == INSTANCE TaggedRegister WITH
  Ids <- [w \in Writers |-> {NameTag[w][i] : i \in Incarnations}],
  InitialValue <- NoValue

ImplementsRegister == Register!Spec

\* The analyzer's checks of the log (safetyAnalyzer.go P1, P2, P3).
P1 == Register!P1
P2 == Register!P2
P3 == Register!P3

\* With a minority of every object's servers killed and no request lost, every
\* operation that starts also returns (the client waits with Poll(-1), has no
\* timeout and never sends again).
OperationsEnd == \A c \in Clients : Busy(c) ~> ~ Busy(c)
=============================================================================
