-------------------------------- MODULE Sodaw --------------------------------
(***************************************************************************)
(* The erasure-coded algorithms SODAW and SODAW_FAST (soda_variations.go). *)
(*                                                                         *)
(* A write sends each server its own coded element; any K elements of one  *)
(* write, with K different code indices, decode to the value.  A read      *)
(* asks for a tag at least tag_req and is registered at the servers, which *)
(* relay to it what later writes bring, until it could decode some tag and *)
(* says so (READ_COMPLETE).  A read writes nothing back.                   *)
(*                                                                         *)
(* One object is modelled: servers keep everything per object, and the     *)
(* header check that separates objects in a client is that of Abd.  The    *)
(* code index of an element is written as the server at that position of   *)
(* Servers_names; FirstServer stands at position 0, the default index.     *)
(*                                                                         *)
(* replies holds only what the client can still use.  A reply fails the    *)
(* header check for good once its phase has ended, and receiving it has no *)
(* other effect, so it is discarded when it arrives or when the phase ends *)
(* rather than when the poll loop or clearIncomingChannels gets to it.     *)
(***************************************************************************)
EXTENDS Tags, SequencesExt

CONSTANTS
  Readers, Writers, Servers,
  FirstServer,     \* the server at position 0 of Servers_names
  NameTag,         \* NameTag[w][i]: rank of the id "w-i" of incarnation i
  K,               \* CodeParams.CodeK = floor(Rate * Numservers)
  Fast,            \* TRUE for SODAW_FAST, FALSE for SODAW
  UseDisk,         \* appParams.UseDisk
  Prewritten,      \* reads are asked for once a write has ended (the pre-writes
                   \* of start_regression.sh)
  MaxOpnum,        \* bound: MaxOpnum[c] operations of client c
  MaxIncarnation,  \* bound: restarts of one client
  MaxDrops,        \* bound: requests lost at the sender
  MaxKilledServers, MaxKilledClients,  \* bounds: processes killed from outside
  MaxDiskErrors    \* bound: servers a write of whose file fails

Clients == Readers \cup Writers
Incarnations == 0..MaxIncarnation
majority == (Cardinality(Servers) + 2) \div 2

ASSUME ClientsAssumption == Readers \cap Writers = {}
ASSUME ServersAssumption == IsFiniteSet(Servers) /\ FirstServer \in Servers
\* InitalizeMasterObjCatalogue panics unless majority <= K (params.go 325-366).
ASSUME KAssumption == K \in majority .. Cardinality(Servers)
ASSUME NameTagAssumption ==
  /\ NameTag \in [Writers -> [Incarnations -> Nat \ {0}]]
  /\ \A v, w \in Writers, i, j \in Incarnations :
       NameTag[v][i] = NameTag[w][j] => v = w /\ i = j
ASSUME BoundsAssumption ==
  /\ {Fast, UseDisk, Prewritten} \subseteq BOOLEAN
  /\ MaxOpnum \in [Clients -> Nat]
  /\ {MaxIncarnation, MaxDrops, MaxDiskErrors} \subseteq Nat
  /\ {MaxKilledServers, MaxKilledClients} \subseteq Nat

VARIABLES
  tagCodedElement_var,  \* [Servers -> TagValue], in server memory
  disk,                 \* [Servers -> TagValue], the object's file
  readsInProgress,      \* [Servers -> SUBSET ReadsInProgress]
  stopped,              \* processes that have exited
  panics,               \* assertions of the code that failed
  busy,                 \* clients that execute an operation
  Opnum,                \* operations each client has started
  Phase,                \* the phase each client is in, or was in last
  incarnation,
  num_responses,        \* useful replies counted in the current phase
  TagValue_var,         \* largest tag received, then the pair put or asked for
  IsOnePhase,           \* all tags received so far are equal
  rx_state,             \* coded elements received in the current phase
  responders,           \* history: the servers whose replies were counted in it
  requests,             \* [Clients -> [Incarnations -> [Servers -> Seq(Message)]]]
  replies,              \* [Clients -> [Servers -> Seq(Message)]], current sockets
  drops, diskErrors,    \* requests lost; the servers whose disk writes failed
  floor,                \* history: completed when the operation began
  completed,            \* history: largest tag of the operations that ended
  log                   \* history: the FOR_SAFETY_CHECK lines

serverVars == <<tagCodedElement_var, disk, readsInProgress, diskErrors>>
processVars == <<stopped, panics>>
phaseVars == <<Phase, num_responses, TagValue_var, IsOnePhase, rx_state, responders>>
netVars == <<requests, replies, drops>>
historyVars == <<floor, completed, log>>
vars == <<serverVars, processVars, busy, Opnum, incarnation, phaseVars, netVars,
          historyVars>>

-----------------------------------------------------------------------------
(* Data *)

SODAW_GET_TAG == "sodaw_getTag"
SODAW_GET_DATA == "sodaw_getData"
SODAW_PUT_DATA == "sodaw_putData"
SODAW_READ_COMPLETE == "sodaw_readComplete"
SODAW_FAST_GET_TAG_DATA == "sodaw_getTagData"
Phases == {SODAW_GET_TAG, SODAW_GET_DATA, SODAW_PUT_DATA, SODAW_READ_COMPLETE,
           SODAW_FAST_GET_TAG_DATA}

\* A value is named by the write that stores it.  NoValue is the empty slice,
\* Garbage what decoding elements of different writes yields.
NoValue == <<>>
Garbage == <<"garbage">>
Values == UNION {{w} \X (1..MaxOpnum[w]) : w \in Writers}
TagValue == [Tag_var : AnyTag, Value : Values \cup {NoValue, Garbage},
             CodeIndex : Servers]
TagOnly(t) == [Tag_var |-> t, Value |-> NoValue, CodeIndex |-> FirstServer]
ZeroTag == [Version_num |-> 0, Client_id |-> 0]

Message == [Opnum : Nat, Phase : Phases, TagValue_var : TagValue]
ReadsInProgress == [reader_name : Clients, opnum : Nat, tag_request : AnyTag,
                    zmq_identity : Incarnations, outdated : BOOLEAN]

\* getDecodedValue on elements with different code indices: only K elements of
\* one write give its value back.
Decoded(elements) ==
  IF \E v \in Values : \A e \in elements : e.Value = v
    THEN (CHOOSE e \in elements : TRUE).Value
    ELSE Garbage

\* Replies a phase waits for: getTag a majority, the others K.
\* Mutant: one acknowledgement fewer than K.
quorum_size_less(phase) ==
  IF phase = SODAW_PUT_DATA THEN K - 1
  ELSE IF phase = SODAW_GET_TAG THEN majority ELSE K

quorum_size(phase) == IF phase = SODAW_GET_TAG THEN majority ELSE K

Running(c) == c \notin stopped
CountsReplies(c) == Phase[c] \notin {SODAW_GET_DATA, SODAW_READ_COMPLETE}
HasQuorum(c) ==
  c \in busy /\ Running(c) /\ CountsReplies(c)
  /\ num_responses[c] = quorum_size(Phase[c])

\* The header check, by a client that receives at all.
isMessageUseful(c, m) ==
  c \in busy /\ Running(c) /\ m.Opnum = Opnum[c] /\ m.Phase = Phase[c]

-----------------------------------------------------------------------------
Init ==
  /\ tagCodedElement_var = [s \in Servers |-> TagOnly(InitialTag)]
  /\ disk = [s \in Servers |-> TagOnly(LowestTag)]       \* no file yet
  /\ readsInProgress = [s \in Servers |-> {}]
  /\ stopped = {} /\ panics = {}
  /\ busy = {}
  /\ Opnum = [c \in Clients |-> 0]
  /\ Phase = [c \in Clients |-> SODAW_READ_COMPLETE]
  /\ incarnation = [c \in Clients |-> 0]
  /\ num_responses = [c \in Clients |-> 0]
  /\ TagValue_var = [c \in Clients |-> TagOnly(LowestTag)]
  /\ IsOnePhase = [c \in Clients |-> TRUE]
  /\ rx_state = [c \in Clients |-> {}]
  /\ responders = [c \in Clients |-> {}]
  /\ requests = [c \in Clients |-> [i \in Incarnations |-> [s \in Servers |-> <<>>]]]
  /\ replies = [c \in Clients |-> [s \in Servers |-> <<>>]]
  /\ drops = 0 /\ diskErrors = {}
  /\ floor = [c \in Clients |-> InitialTag]
  /\ completed = InitialTag
  /\ log = {}

-----------------------------------------------------------------------------
(* Clients *)

\* The payload of a broadcast, by server; the same for all of them.
ToAll(tv) == [s \in Servers |-> tv]

\* QueryServers, WriteToServers and WriteCodedValuesToServers: one message to
\* every server, with what payload gives it; a send that would block is dropped.
SendToServers(c, opnum, phase, payload) ==
  \E lost \in SUBSET Servers :
    /\ drops + Cardinality(lost) <= MaxDrops
    /\ drops' = drops + Cardinality(lost)
    /\ requests' = [requests EXCEPT ![c][incarnation[c]] =
         [s \in Servers |-> IF s \in lost THEN @[s]
            ELSE Append(@[s], [Opnum |-> opnum, Phase |-> phase,
                               TagValue_var |-> payload[s]])]]

\* A phase begins with nothing received.
EnterPhase(c, phase, tv) ==
  /\ replies' = [replies EXCEPT ![c] = [s \in Servers |-> <<>>]]
  /\ Phase' = [Phase EXCEPT ![c] = phase]
  /\ TagValue_var' = [TagValue_var EXCEPT ![c] = tv]
  /\ num_responses' = [num_responses EXCEPT ![c] = 0]
  /\ IsOnePhase' = [IsOnePhase EXCEPT ![c] = TRUE]
  /\ rx_state' = [rx_state EXCEPT ![c] = {}]
  /\ responders' = [responders EXCEPT ![c] = {}]

\* The client takes one token from its channel for each operation.
OperationAsked(c) == Opnum[c] < MaxOpnum[c]

\* doARead / doAWrite up to the first broadcast.
StartOperation(c, phase) ==
  /\ c \notin busy /\ Running(c)
  /\ OperationAsked(c)
  /\ busy' = busy \cup {c}
  /\ Opnum' = [Opnum EXCEPT ![c] = @ + 1]
  /\ floor' = [floor EXCEPT ![c] = completed]
  /\ EnterPhase(c, phase, TagOnly(LowestTag))
  /\ SendToServers(c, Opnum[c] + 1, phase, ToAll(TagOnly(ZeroTag)))
  /\ UNCHANGED <<serverVars, processVars, incarnation, completed, log>>

StartRead(r) ==
  /\ r \in Readers
  /\ Prewritten => completed # InitialTag
  /\ StartOperation(r, IF Fast THEN SODAW_FAST_GET_TAG_DATA ELSE SODAW_GET_TAG)

StartWrite(w) == w \in Writers /\ StartOperation(w, SODAW_GET_TAG)

\* The loop of getTagDataSodawFast over its replies returns the maximum so far
\* at the first one, from the majority on, that leaves no hope for one phase.
\* Mutant: any replies are decoded.
StaysOnePhase_always(c, tv) == TRUE

StaysOnePhase(c, tv) ==
  IsOnePhase[c] /\ (num_responses[c] > 0 => tv.Tag_var = TagValue_var[c].Tag_var)

HasReturned(c) ==
  Phase[c] = SODAW_FAST_GET_TAG_DATA /\ ~ IsOnePhase[c] /\ num_responses[c] >= majority

\* Another element for the decoder; the same tag and index are overwritten.
AddElement(rx, tv) ==
  {e \in rx : e.Tag_var # tv.Tag_var \/ e.CodeIndex # tv.CodeIndex} \cup {tv}

\* A map from code index to element, whatever the tag.
AddChunk(rx, tv) == {e \in rx : e.CodeIndex # tv.CodeIndex} \cup {tv}

\* One turn of the loop of ReceiveMessagesFromQuorum that counts a reply.
CollectReply(c, s) ==
  /\ c \in busy /\ Running(c) /\ CountsReplies(c)
  /\ num_responses[c] < quorum_size(Phase[c])
  /\ replies[c][s] # <<>>
  /\ LET tv == Head(replies[c][s]).TagValue_var IN
       IF Phase[c] = SODAW_PUT_DATA \/ HasReturned(c)
         THEN UNCHANGED <<TagValue_var, IsOnePhase, rx_state>>
         ELSE /\ TagValue_var' = [TagValue_var EXCEPT ![c] =
                   IF IsSmallerThan(@.Tag_var, tv.Tag_var) THEN TagOnly(tv.Tag_var) ELSE @]
              /\ IsOnePhase' = [IsOnePhase EXCEPT ![c] = StaysOnePhase(c, tv)]
              /\ rx_state' = [rx_state EXCEPT ![c] =
                   IF Phase[c] = SODAW_FAST_GET_TAG_DATA /\ StaysOnePhase(c, tv)
                     THEN AddChunk(@, tv) ELSE {}]
  /\ num_responses' = [num_responses EXCEPT ![c] = @ + 1]
  /\ responders' = [responders EXCEPT ![c] = @ \cup {s}]
  /\ replies' = [replies EXCEPT ![c][s] = Tail(@)]
  /\ UNCHANGED <<serverVars, processVars, busy, Opnum, Phase, incarnation, requests,
                 drops, historyVars>>

\* The tag of a write: the next version, under the writer's current name.
newTag(w) ==
  [Version_num |-> TagValue_var[w].Tag_var.Version_num + 1,
   Client_id |-> NameTag[w][incarnation[w]]]

\* write_SODAW between its two phases: every server gets its own element.
WriterPutsData(w) ==
  /\ w \in Writers /\ HasQuorum(w) /\ Phase[w] = SODAW_GET_TAG
  /\ LET tv == [TagOnly(newTag(w)) EXCEPT !.Value = <<w, Opnum[w]>>] IN
       /\ EnterPhase(w, SODAW_PUT_DATA, tv)
       /\ SendToServers(w, Opnum[w], SODAW_PUT_DATA,
                        [s \in Servers |-> [tv EXCEPT !.CodeIndex = s]])
  /\ UNCHANGED <<serverVars, processVars, busy, Opnum, incarnation, historyVars>>

\* read_SODAW after getTag, read_SODAW_FAST when the tags differed: getDataSodaw
\* asks for the largest tag found or a later one.
ReaderAsksForData(r) ==
  /\ r \in Readers /\ HasQuorum(r)
  /\ Phase[r] = SODAW_FAST_GET_TAG_DATA => ~ IsOnePhase[r]
  /\ EnterPhase(r, SODAW_GET_DATA, TagValue_var[r])
  /\ SendToServers(r, Opnum[r], SODAW_GET_DATA, ToAll(TagValue_var[r]))
  /\ UNCHANGED <<serverVars, processVars, busy, Opnum, incarnation, historyVars>>

\* The operation returns the pair tv, in the phase it has reached, and is logged.
EndOperation(c, phase, tv) ==
  /\ busy' = busy \ {c}
  /\ completed' = LargerTag(tv.Tag_var, completed)
  /\ log' = log \cup {[client |-> c, floor |-> floor[c],
       TagValue_var |-> [Tag_var |-> tv.Tag_var, Value |-> tv.Value]]}
  /\ EnterPhase(c, phase, TagOnly(LowestTag))
  /\ UNCHANGED floor

PutDataCompletes(w) ==
  /\ HasQuorum(w) /\ Phase[w] = SODAW_PUT_DATA
  /\ EndOperation(w, SODAW_PUT_DATA, TagValue_var[w])
  /\ UNCHANGED <<serverVars, processVars, Opnum, incarnation, requests, drops>>

\* The K replies had one tag.  The decoder insists on K different indices.
ReadInOnePhase(r) ==
  /\ HasQuorum(r) /\ Phase[r] = SODAW_FAST_GET_TAG_DATA /\ IsOnePhase[r]
  /\ IF Cardinality(rx_state[r]) = K
       THEN /\ EndOperation(r, SODAW_FAST_GET_TAG_DATA,
                 [TagValue_var[r] EXCEPT !.Value = Decoded(rx_state[r])])
            /\ UNCHANGED processVars
       ELSE /\ panics' = panics \cup {"exactly K coded blocks"}
            /\ stopped' = stopped \cup {r}
            /\ UNCHANGED <<busy, phaseVars, replies, historyVars>>
  /\ UNCHANGED <<serverVars, Opnum, incarnation, requests, drops>>

\* The elements received with tag t.
ElementsOf(rx, t) == {e \in rx : e.Tag_var = t}

\* One turn of the loop of getDataSodaw with a useful relay.
CollectRelay(r, s) ==
  /\ r \in busy /\ Running(r) /\ Phase[r] = SODAW_GET_DATA
  /\ replies[r][s] # <<>>
  /\ LET tv == Head(replies[r][s]).TagValue_var
         rest == [replies EXCEPT ![r][s] = Tail(@)]
         rx == AddElement(rx_state[r], tv)
         elements == ElementsOf(rx, tv.Tag_var) IN
       IF IsSmallerThan(tv.Tag_var, TagValue_var[r].Tag_var)
         THEN /\ panics' = panics \cup {"a tag less than requested tag"}
              /\ stopped' = stopped \cup {r}
              /\ replies' = rest
              /\ UNCHANGED <<busy, phaseVars, requests, drops, historyVars>>
       ELSE IF Cardinality(elements) = K
         THEN /\ EndOperation(r, SODAW_READ_COMPLETE,
                   [TagOnly(tv.Tag_var) EXCEPT !.Value = Decoded(elements)])
              /\ SendToServers(r, Opnum[r], SODAW_READ_COMPLETE,
                               ToAll(TagOnly(ZeroTag)))
              /\ UNCHANGED processVars
         ELSE /\ rx_state' = [rx_state EXCEPT ![r] = rx]
              /\ replies' = rest
              /\ UNCHANGED <<processVars, busy, Phase, num_responses, TagValue_var,
                             IsOnePhase, responders, requests, drops, historyVars>>
  /\ UNCHANGED <<serverVars, Opnum, incarnation>>

\* hasFailed between two operations: a new name, new sockets and a new poller
\* (between operations no reply is of use any more).
emulateNewClient(c) ==
  /\ c \notin busy /\ Running(c)
  /\ incarnation[c] < MaxIncarnation
  /\ incarnation' = [incarnation EXCEPT ![c] = @ + 1]
  /\ UNCHANGED <<serverVars, processVars, busy, Opnum, phaseVars, netVars, historyVars>>

-----------------------------------------------------------------------------
(* Servers *)

\* The replies to client c after server s sends it m on the socket of incarnation
\* i; the client polls its current sockets only.
Delivered(c, i, s, m) ==
  IF i = incarnation[c] /\ isMessageUseful(c, m)
    THEN [replies[c] EXCEPT ![s] = Append(@, m)]
    ELSE replies[c]
Reply(c, i, s, m) == replies' = [replies EXCEPT ![c] = Delivered(c, i, s, m)]

\* readsInProgress is a map whose key is the reader's name and its opnum.
SameRead(x, r, opnum) == x.reader_name = r /\ x.opnum = opnum
doesReadExist(s, r, opnum) == \E x \in readsInProgress[s] : SameRead(x, r, opnum)

unregisterRead(s, r, opnum) ==
  readsInProgress' = [readsInProgress EXCEPT ![s] =
    {x \in @ : ~ SameRead(x, r, opnum)}]

registerNewRead(s, r, i, m, isOutdated) ==
  readsInProgress' = [readsInProgress EXCEPT ![s] = @ \cup
    {[reader_name |-> r, opnum |-> m.Opnum, tag_request |-> m.TagValue_var.Tag_var,
      zmq_identity |-> i, outdated |-> isOutdated]}]

\* getTagRespSodaw and getTagDataRespSodawFast.
getTagResp(s, c, i, m) ==
  /\ m.Phase \in {SODAW_GET_TAG, SODAW_FAST_GET_TAG_DATA}
  /\ Reply(c, i, s, [m EXCEPT !.TagValue_var =
       IF m.Phase = SODAW_GET_TAG THEN TagOnly(tagCodedElement_var[s].Tag_var)
       ELSE tagCodedElement_var[s]])
  /\ UNCHANGED <<serverVars, processVars>>

\* Mutant: an answer whatever the local tag.
AnswersNow_always(s, tag_req) == TRUE

AnswersNow(s, tag_req) == ~ IsSmallerThan(tagCodedElement_var[s].Tag_var, tag_req)

\* A read already known is outdated and forgotten.  Otherwise it is registered,
\* and answered with the local element if that is recent enough; with UseDisk
\* the element is read from its file, without which the server panics.
getDataResp(s, r, i, m) ==
  /\ m.Phase = SODAW_GET_DATA
  /\ IF doesReadExist(s, r, m.Opnum)
       THEN /\ unregisterRead(s, r, m.Opnum)
            /\ UNCHANGED <<tagCodedElement_var, processVars, replies>>
     ELSE IF ~ AnswersNow(s, m.TagValue_var.Tag_var)
       THEN /\ registerNewRead(s, r, i, m, FALSE)
            /\ UNCHANGED <<tagCodedElement_var, processVars, replies>>
     ELSE IF UseDisk /\ disk[s].Tag_var = LowestTag
       THEN /\ panics' = panics \cup {"Error gobfying message"}
            /\ stopped' = stopped \cup {s}
            /\ UNCHANGED <<tagCodedElement_var, readsInProgress, replies>>
       ELSE /\ registerNewRead(s, r, i, m, FALSE)
            /\ tagCodedElement_var' = [tagCodedElement_var EXCEPT ![s] =
                 IF UseDisk THEN disk[s] ELSE @]
            /\ Reply(r, i, s, [m EXCEPT !.TagValue_var = tagCodedElement_var'[s]])
            /\ UNCHANGED processVars
  /\ UNCHANGED <<disk, diskErrors>>

\* Mutant: a completed read is noted as outdated even when it is registered.
readCompleteResp_keeps(s, r, i, m) ==
  /\ m.Phase = SODAW_READ_COMPLETE
  /\ registerNewRead(s, r, i, m, TRUE)
  /\ UNCHANGED <<tagCodedElement_var, disk, diskErrors, processVars, replies>>

readCompleteResp(s, r, i, m) ==
  /\ m.Phase = SODAW_READ_COMPLETE
  /\ IF doesReadExist(s, r, m.Opnum)
       THEN unregisterRead(s, r, m.Opnum)
       ELSE registerNewRead(s, r, i, m, TRUE)
  /\ UNCHANGED <<tagCodedElement_var, disk, diskErrors, processVars, replies>>

\* Mutants: a put relayed only to reads that asked for an older tag; to all.
IsServed_older(x, t) == isGreaterTag(t, x.tag_request) /\ ~ x.outdated
IsServed_any(x, t) == ~ x.outdated

\* The reads in progress to which a put with tag t is relayed.
IsServed(x, t) == ~ isGreaterTag(x.tag_request, t) /\ ~ x.outdated

\* The replies to reader r after the put m is relayed to its registered reads, of
\* which the reader listens to at most one.
Relayed(s, r, m) ==
  LET relay == [m EXCEPT !.Opnum = Opnum[r], !.Phase = SODAW_GET_DATA] IN
  IF \E x \in readsInProgress[s] :
       /\ SameRead(x, r, Opnum[r]) /\ x.zmq_identity = incarnation[r]
       /\ IsServed(x, m.TagValue_var.Tag_var)
    THEN Delivered(r, incarnation[r], s, relay)
    ELSE replies[r]

Supersedes(t, s) == isGreaterTag(t, tagCodedElement_var[s].Tag_var)

\* The element is relayed, stored if its tag is larger than the local one, and
\* acknowledged.  With UseDisk it goes to the file, whether or not that write
\* succeeds, and memory keeps the tag only.
putDataResp(s, w, i, m) ==
  /\ m.Phase = SODAW_PUT_DATA
  /\ replies' = [c \in Clients |->
       IF c \in Readers THEN Relayed(s, c, m)
       ELSE IF c = w THEN Delivered(w, i, s, [m EXCEPT !.TagValue_var.Value = NoValue])
       ELSE replies[c]]
  /\ LET stores == Supersedes(m.TagValue_var.Tag_var, s) IN
       /\ tagCodedElement_var' = [tagCodedElement_var EXCEPT ![s] =
            IF ~ stores THEN @
            ELSE IF UseDisk THEN TagOnly(m.TagValue_var.Tag_var) ELSE m.TagValue_var]
       /\ \/ /\ disk' = [disk EXCEPT ![s] = IF stores /\ UseDisk THEN m.TagValue_var ELSE @]
             /\ UNCHANGED diskErrors
          \/ /\ stores /\ UseDisk /\ Cardinality(diskErrors \cup {s}) <= MaxDiskErrors
             /\ diskErrors' = diskErrors \cup {s}
             /\ UNCHANGED disk
  /\ UNCHANGED <<readsInProgress, processVars>>

\* server_worker handles the next message from the socket of incarnation i of c.
ServerStep(s, c, i) ==
  /\ Running(s)
  /\ requests[c][i][s] # <<>>
  /\ requests' = [requests EXCEPT ![c][i][s] = Tail(@)]
  /\ LET m == Head(requests[c][i][s]) IN
       \/ getTagResp(s, c, i, m)
       \/ getDataResp(s, c, i, m)
       \/ readCompleteResp(s, c, i, m)
       \/ putDataResp(s, c, i, m)
  /\ UNCHANGED <<busy, Opnum, incarnation, phaseVars, drops, historyVars>>

\* KillSelf: a process exits and is not restarted.  Of what a client has sent,
\* a part may not have left it yet.
KillServer(s) ==
  /\ Running(s) /\ Cardinality(stopped \cap Servers) < MaxKilledServers
  /\ stopped' = stopped \cup {s}
  /\ UNCHANGED <<serverVars, panics, busy, Opnum, incarnation, phaseVars, netVars,
                 historyVars>>

KillClient(c) ==
  /\ c \in busy /\ Running(c) /\ Cardinality(stopped \cap Clients) < MaxKilledClients
  /\ stopped' = stopped \cup {c}
  /\ \E lost \in SUBSET Servers :
       requests' = [requests EXCEPT ![c][incarnation[c]] =
         [s \in Servers |-> IF s \in lost /\ @[s] # <<>> THEN Front(@[s]) ELSE @[s]]]
  /\ UNCHANGED <<serverVars, panics, busy, Opnum, incarnation, phaseVars, replies,
                 drops, historyVars>>

-----------------------------------------------------------------------------
ClientStep(c) ==
  \/ StartRead(c) \/ StartWrite(c)
  \/ \E s \in Servers : CollectReply(c, s) \/ CollectRelay(c, s)
  \/ WriterPutsData(c) \/ PutDataCompletes(c)
  \/ ReaderAsksForData(c) \/ ReadInOnePhase(c)
  \/ emulateNewClient(c)
  \/ KillClient(c)

\* Nothing is left to do, or to wait for.
AllDone ==
  /\ \A c \in Clients : c \in stopped \/ c \notin busy
  /\ UNCHANGED vars

Next ==
  \/ \E c \in Clients : ClientStep(c)
  \/ \E s \in Servers, c \in Clients, i \in Incarnations : ServerStep(s, c, i)
  \/ \E s \in Servers : KillServer(s)
  \/ AllDone

Spec == Init /\ [][Next]_vars

\* A live server serves every socket, and a client polls all its sockets and
\* returns from its phases.  Nothing obliges a client to start an operation.
Fairness ==
  /\ \A s \in Servers, c \in Clients, i \in Incarnations :
       WF_vars(ServerStep(s, c, i))
  /\ \A c \in Clients, s \in Servers :
       WF_vars(CollectReply(c, s) \/ CollectRelay(c, s))
  /\ \A c \in Clients :
       WF_vars(WriterPutsData(c) \/ PutDataCompletes(c)
               \/ ReaderAsksForData(c) \/ ReadInOnePhase(c))

FairSpec == Spec /\ Fairness
-----------------------------------------------------------------------------
(* Properties *)

TypeOK ==
  /\ tagCodedElement_var \in [Servers -> TagValue]
  /\ disk \in [Servers -> TagValue]
  /\ readsInProgress \in [Servers -> SUBSET ReadsInProgress]
  /\ stopped \subseteq Servers \cup Clients
  /\ busy \subseteq Clients
  /\ Opnum \in [Clients -> Nat] /\ \A c \in Clients : Opnum[c] <= MaxOpnum[c]
  /\ \A c \in busy : Opnum[c] >= 1
  /\ Phase \in [Clients -> Phases]
  /\ incarnation \in [Clients -> Incarnations]
  /\ num_responses \in [Clients -> Nat]
  /\ TagValue_var \in [Clients -> TagValue]
  /\ IsOnePhase \in [Clients -> BOOLEAN]
  /\ rx_state \in [Clients -> SUBSET TagValue]
  /\ responders \in [Clients -> SUBSET Servers]
  /\ requests \in [Clients -> [Incarnations -> [Servers -> Seq(Message)]]]
  /\ replies \in [Clients -> [Servers -> Seq(Message)]]
  /\ drops \in 0..MaxDrops
  /\ diskErrors \subseteq Servers /\ Cardinality(diskErrors) <= MaxDiskErrors
  /\ floor \in [Clients -> Tag] /\ completed \in Tag

\* Once an operation has ended, K servers hold its tag or a larger one: for a
\* write by its acknowledgements (putDataSodaw 184-196), for a read although it
\* writes nothing back (getDataSodaw 110-175), since the elements it decoded
\* came from servers that had stored them.  With UseDisk every server a write of
\* whose file failed, of which putDataRespSodaw (419-424) takes no notice, may be
\* one holder fewer: a later read of the file brings its tag back to an older one
\* (380).
CompletedIsStored ==
  Cardinality({s \in Servers :
    s \in diskErrors \/ AtLeast(tagCodedElement_var[s].Tag_var, completed)}) >= K

\* No client gives the decoder anything but K elements with K different indices
\* (the assertion of applicationUtilities.go 108-112).
DecoderGetsKBlocks == "exactly K coded blocks" \notin panics

\* No read is sent an element older than the tag it asked for, by a late relay
\* or from a file (the os.Exit(9) of soda_variations.go 141-146).
ReaderGetsRequestedTag == "a tag less than requested tag" \notin panics

\* No server is asked to read the file of an object it has not stored
\* (getDataRespSodaw 379-382 ignores the error of ReadFromDisk; decoding nothing
\* panics).
FilesExistWhenRead == "Error gobfying message" \notin panics

\* A read that has ended stays registered at a server only while its
\* READ_COMPLETE is on the way there (readCompleteRespSodaw 388-400), and an
\* entry found by GET_DATA is outdated "by desgin" (363): a registration left
\* behind would be relayed to for ever.
ReadsAreUnregistered ==
  \A s \in Servers : \A x \in readsInProgress[s] :
    LET r == x.reader_name IN
      \/ ~ x.outdated /\ r \in busy /\ x.opnum = Opnum[r]
      \/ \E m \in Range(requests[r][x.zmq_identity][s]) :
           m.Opnum = x.opnum /\ m.Phase = SODAW_READ_COMPLETE

\* What the clients of the object execute, and the pair each writer is putting,
\* once it has chosen its tag.
TheObject == "object"
NoObject == "none"
Objname == [c \in Clients |-> IF c \in busy THEN TheObject ELSE NoObject]
Pair(tv) == [Tag_var |-> tv.Tag_var, Value |-> tv.Value]
chosen == [w \in Writers |->
  IF w \in busy /\ Phase[w] = SODAW_PUT_DATA THEN Pair(TagValue_var[w])
                                             ELSE Pair(TagOnly(LowestTag))]

\* SODAW implements the tagged register that ABD implements: a write chooses its
\* tag when it leaves its first phase (write_SODAW 246-264), and a read returns
\* a written pair, with the value of that write, above its floor.
Register == INSTANCE TaggedRegister WITH
  Objects <- {TheObject},
  Ids <- [w \in Writers |-> {NameTag[w][i] : i \in Incarnations}],
  InitialValue <- NoValue,
  completed <- [o \in {TheObject} |-> completed],
  log <- [o \in {TheObject} |-> log]

ImplementsRegister == Register!Spec

\* With at most N - K servers stopped and no request lost, every operation that
\* starts on a written object also returns: a read gets K elements of the largest
\* tag found at the servers when they register it, or of a later one.
OperationsEnd ==
  \A c \in Clients : c \in busy ~> (c \notin busy \/ c \in stopped)
=============================================================================
