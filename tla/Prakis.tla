-------------------------------- MODULE Prakis --------------------------------
(***************************************************************************)
(* The list-based erasure-coded algorithm PRAKIS (list_based_algos.go).    *)
(*                                                                         *)
(* A write first sends its coded elements; each server keeps its element   *)
(* in a list, under a tag one above its own, until some tag is committed   *)
(* for it.  The writer takes the largest of K proposals and commits it.  A *)
(* reader that has heard of a tag commits it as well, so that a write      *)
(* whose writer is slow is finished by its readers; what is committed is   *)
(* relayed to the reads registered for it.                                 *)
(*                                                                         *)
(* One object is modelled.  Code indices, Garbage and replies are those of *)
(* Sodaw: an index is written as the server at that position, and a reply  *)
(* is discarded as soon as the header check can only fail.  The servers'   *)
(* state is one record each, SingleObjServerState (global_variables.go).   *)
(***************************************************************************)
EXTENDS Tags, SequencesExt

CONSTANTS
  Readers, Writers, Servers,
  FirstServer,     \* the server at position 0 of Servers_names
  NameTag,         \* NameTag[w]: rank of the name of writer w
  K,               \* CodeParams.CodeK = floor(Rate * Numservers)
  Prewritten,      \* reads are asked for once a write has ended
  MaxOpnum,        \* bound: MaxOpnum[c] operations of client c
  MaxIncarnation,  \* bound: restarts of one client
  MaxDrops,        \* bound: requests lost at the sender
  MaxKilledServers \* bound: servers killed

Clients == Readers \cup Writers
Incarnations == 0..MaxIncarnation

ASSUME ClientsAssumption == Readers \cap Writers = {}
ASSUME ServersAssumption == IsFiniteSet(Servers) /\ FirstServer \in Servers
\* InitalizeMasterObjCatalogue panics unless K is at least a majority.
ASSUME KAssumption == K \in (Cardinality(Servers) + 2) \div 2 .. Cardinality(Servers)
ASSUME NameTagAssumption ==
  /\ NameTag \in [Writers -> Nat \ {0}]
  /\ \A v, w \in Writers : NameTag[v] = NameTag[w] => v = w
ASSUME BoundsAssumption ==
  /\ Prewritten \in BOOLEAN
  /\ MaxOpnum \in [Clients -> Nat]
  /\ {MaxIncarnation, MaxDrops, MaxKilledServers} \subseteq Nat

VARIABLES
  server_state_variables, \* [Servers -> SingleObjServerState]
  stopped,              \* processes that have exited
  panics,               \* assertions of the code that failed
  busy,                 \* clients that execute an operation
  Opnum,                \* operations each client has started
  Phase,                \* the phase each client is in, or was in last
  incarnation,
  num_responses,        \* useful replies counted in the current phase
  TagValue_var,         \* largest pair received, then the pair put or asked for
  IsOnePhase,           \* all tags received so far are equal
  rx_state,             \* coded elements received in the current phase
  tagsRequested,        \* tags the reader has asked the servers to commit
  responders,           \* history: the servers whose replies were counted in it
  requests,             \* [Clients -> [Incarnations -> [Servers -> Seq(Message)]]]
  replies,              \* [Clients -> [Servers -> Seq(Message)]], current sockets
  drops,                \* requests lost so far
  floor,                \* history: completed when the operation began
  completed,            \* history: largest tag of the operations that ended
  log                   \* history: the FOR_SAFETY_CHECK lines

processVars == <<stopped, panics>>
phaseVars == <<Phase, num_responses, TagValue_var, IsOnePhase, rx_state, tagsRequested,
               responders>>
netVars == <<requests, replies, drops>>
historyVars == <<floor, completed, log>>
vars == <<server_state_variables, processVars, busy, Opnum, incarnation, phaseVars,
          netVars, historyVars>>

-----------------------------------------------------------------------------
(* Data *)

PRAKIS_PUT_DATA == "prakis_put_data"
PRAKIS_PUT_TAG == "prakis_put_tag"
PRAKIS_GET_TAG_DATA == "prakis_get_tag_data"
PRAKIS_RELAY_DATA == "prakis_relay_data"
PRAKIS_READ_COMPLETE == "prakis_readComplete"
Phases == {PRAKIS_PUT_DATA, PRAKIS_PUT_TAG, PRAKIS_GET_TAG_DATA, PRAKIS_RELAY_DATA,
           PRAKIS_READ_COMPLETE}

NoValue == <<>>
Garbage == <<"garbage">>
Values == UNION {{w} \X (1..MaxOpnum[w]) : w \in Writers}
TagValue == [Tag_var : AnyTag, Value : Values \cup {NoValue, Garbage},
             CodeIndex : Servers, Opnum : Nat, ToCommit : BOOLEAN]
TagOnly(t, opnum) == [Tag_var |-> t, Value |-> NoValue, CodeIndex |-> FirstServer,
                      Opnum |-> opnum, ToCommit |-> FALSE]
ZeroTag == [Version_num |-> 0, Client_id |-> 0]

Message == [Opnum : Nat, Phase : Phases, TagValue_var : TagValue]
ReadsInProgress == [reader_name : Clients, opnum : Nat, tag_request : AnyTag,
                    zmq_identity : Incarnations]
WritesInProgress == [Client_id : Nat, opnum : Nat, tagValue : TagValue,
                     isFinalized : BOOLEAN]
SingleObjServerState ==
  [tagCodedElement_var : TagValue, readsInProgress : SUBSET ReadsInProgress,
   writesInProgress : SUBSET WritesInProgress]

\* getDecodedValue on elements with different code indices: only K elements of
\* one write give its value back.
Decoded(elements) ==
  IF \E v \in Values : \A e \in elements : e.Value = v
    THEN (CHOOSE e \in elements : TRUE).Value
    ELSE Garbage

Running(p) == p \notin stopped

\* Mutant: one reply fewer than K.
quorum_size_less == K - 1

quorum_size == K

HasQuorum(c) ==
  /\ c \in busy /\ Running(c)
  /\ Phase[c] # PRAKIS_RELAY_DATA /\ num_responses[c] = quorum_size

\* The header check, by a client that receives at all.
isMessageUseful(c, m) ==
  c \in busy /\ Running(c) /\ m.Opnum = Opnum[c] /\ m.Phase = Phase[c]

-----------------------------------------------------------------------------
Init ==
  /\ server_state_variables = [s \in Servers |->
       [tagCodedElement_var |-> TagOnly(InitialTag, 0),
        readsInProgress |-> {}, writesInProgress |-> {}]]
  /\ stopped = {} /\ panics = {}
  /\ busy = {}
  /\ Opnum = [c \in Clients |-> 0]
  /\ Phase = [c \in Clients |-> PRAKIS_READ_COMPLETE]
  /\ incarnation = [c \in Clients |-> 0]
  /\ num_responses = [c \in Clients |-> 0]
  /\ TagValue_var = [c \in Clients |-> TagOnly(LowestTag, 0)]
  /\ IsOnePhase = [c \in Clients |-> TRUE]
  /\ rx_state = [c \in Clients |-> {}]
  /\ tagsRequested = [c \in Clients |-> {}]
  /\ responders = [c \in Clients |-> {}]
  /\ requests = [c \in Clients |-> [i \in Incarnations |-> [s \in Servers |-> <<>>]]]
  /\ replies = [c \in Clients |-> [s \in Servers |-> <<>>]]
  /\ drops = 0
  /\ floor = [c \in Clients |-> InitialTag]
  /\ completed = InitialTag
  /\ log = {}

-----------------------------------------------------------------------------
(* Clients *)

\* The payload of a broadcast, by server; the same for all of them.
ToAll(tv) == [s \in Servers |-> tv]

\* QueryServers, WriteToServers and WriteCodedValuesToServers.
SendToServers(c, opnum, phase, payload) ==
  \E lost \in SUBSET Servers :
    /\ drops + Cardinality(lost) <= MaxDrops
    /\ drops' = drops + Cardinality(lost)
    /\ requests' = [requests EXCEPT ![c][incarnation[c]] =
         [s \in Servers |-> IF s \in lost THEN @[s]
            ELSE Append(@[s], [Opnum |-> opnum, Phase |-> phase,
                               TagValue_var |-> payload[s]])]]

\* A phase begins with nothing received.
EnterPhase(c, phase, tv) ==
  /\ replies' = [replies EXCEPT ![c] = [s \in Servers |-> <<>>]]
  /\ Phase' = [Phase EXCEPT ![c] = phase]
  /\ TagValue_var' = [TagValue_var EXCEPT ![c] = tv]
  /\ num_responses' = [num_responses EXCEPT ![c] = 0]
  /\ IsOnePhase' = [IsOnePhase EXCEPT ![c] = TRUE]
  /\ rx_state' = [rx_state EXCEPT ![c] = {}]
  /\ tagsRequested' = [tagsRequested EXCEPT ![c] = {}]
  /\ responders' = [responders EXCEPT ![c] = {}]

\* The client takes one token from its channel for each operation.
OperationAsked(c) == Opnum[c] < MaxOpnum[c]

\* doARead / doAWrite up to the first broadcast.
StartOperation(c, phase, payload) ==
  /\ c \notin busy /\ Running(c)
  /\ OperationAsked(c)
  /\ busy' = busy \cup {c}
  /\ Opnum' = [Opnum EXCEPT ![c] = @ + 1]
  /\ floor' = [floor EXCEPT ![c] = completed]
  /\ EnterPhase(c, phase, TagOnly(LowestTag, 0))
  /\ SendToServers(c, Opnum[c] + 1, phase, payload)
  /\ UNCHANGED <<server_state_variables, processVars, incarnation, completed, log>>

StartRead(r) ==
  /\ r \in Readers
  /\ Prewritten => completed # InitialTag
  /\ StartOperation(r, PRAKIS_GET_TAG_DATA, ToAll(TagOnly(ZeroTag, 0)))

\* putDataPrakis up to the wait: every server gets its own element.
StartWrite(w) ==
  /\ w \in Writers
  /\ StartOperation(w, PRAKIS_PUT_DATA, [s \in Servers |->
       [Tag_var |-> [Version_num |-> 0, Client_id |-> NameTag[w]],
        Value |-> <<w, Opnum[w] + 1>>, CodeIndex |-> s, Opnum |-> Opnum[w] + 1,
        ToCommit |-> FALSE]])

\* Mutant: any replies are decoded.
StaysOnePhase_always(c, tv) == TRUE

StaysOnePhase(c, tv) ==
  IsOnePhase[c] /\ (num_responses[c] > 0 => tv.Tag_var = TagValue_var[c].Tag_var)

\* A map from code index to element, whatever the tag.
AddChunk(rx, tv) == {e \in rx : e.CodeIndex # tv.CodeIndex} \cup {tv}

\* One turn of the loop of ReceiveMessagesFromQuorum that counts a reply: a
\* proposal for the tag of a write, a local pair for a read, an acknowledgement.
CollectReply(c, s) ==
  /\ c \in busy /\ Running(c) /\ Phase[c] # PRAKIS_RELAY_DATA
  /\ num_responses[c] < quorum_size
  /\ replies[c][s] # <<>>
  /\ LET tv == Head(replies[c][s]).TagValue_var IN
       /\ IF Phase[c] = PRAKIS_PUT_TAG
            THEN UNCHANGED <<TagValue_var, IsOnePhase, rx_state>>
            ELSE /\ TagValue_var' = [TagValue_var EXCEPT ![c] =
                      IF IsSmallerThan(@.Tag_var, tv.Tag_var)
                        THEN TagOnly(tv.Tag_var, tv.Opnum) ELSE @]
                 /\ IsOnePhase' = [IsOnePhase EXCEPT ![c] = StaysOnePhase(c, tv)]
                 /\ rx_state' = [rx_state EXCEPT ![c] =
                      IF Phase[c] = PRAKIS_GET_TAG_DATA /\ StaysOnePhase(c, tv)
                        THEN AddChunk(@, tv) ELSE {}]
       /\ IF Phase[c] = PRAKIS_PUT_DATA /\ tv.Tag_var.Client_id # NameTag[c]
            THEN /\ panics' = panics \cup {"Unexpected client Id"}
                 /\ stopped' = stopped \cup {c}
            ELSE UNCHANGED processVars
  /\ num_responses' = [num_responses EXCEPT ![c] = @ + 1]
  /\ responders' = [responders EXCEPT ![c] = @ \cup {s}]
  /\ replies' = [replies EXCEPT ![c][s] = Tail(@)]
  /\ UNCHANGED <<server_state_variables, busy, Opnum, Phase, incarnation,
                 tagsRequested, requests, drops, historyVars>>

\* write_PRAKIS between its two phases: the largest proposal is the tag.
WriterPutsTag(w) ==
  /\ HasQuorum(w) /\ Phase[w] = PRAKIS_PUT_DATA
  /\ LET tv == TagOnly(TagValue_var[w].Tag_var, Opnum[w]) IN
       /\ EnterPhase(w, PRAKIS_PUT_TAG, tv)
       /\ SendToServers(w, Opnum[w], PRAKIS_PUT_TAG, ToAll(tv))
  /\ UNCHANGED <<server_state_variables, processVars, busy, Opnum, incarnation,
                 historyVars>>

\* The operation returns the pair tv, in the phase it has reached, and is logged.
EndOperation(c, phase, tv) ==
  /\ busy' = busy \ {c}
  /\ completed' = LargerTag(tv.Tag_var, completed)
  /\ log' = log \cup {[client |-> c, floor |-> floor[c],
       TagValue_var |-> [Tag_var |-> tv.Tag_var, Value |-> tv.Value]]}
  /\ EnterPhase(c, phase, TagOnly(LowestTag, 0))
  /\ UNCHANGED floor

PutTagCompletes(w) ==
  /\ HasQuorum(w) /\ Phase[w] = PRAKIS_PUT_TAG
  /\ EndOperation(w, PRAKIS_PUT_TAG,
                  [TagValue_var[w] EXCEPT !.Value = <<w, Opnum[w]>>])
  /\ UNCHANGED <<server_state_variables, processVars, Opnum, incarnation, requests, drops>>

\* The K pairs had one tag.  The decoder insists on K different indices.
ReadInOnePhase(r) ==
  /\ HasQuorum(r) /\ Phase[r] = PRAKIS_GET_TAG_DATA /\ IsOnePhase[r]
  /\ IF Cardinality(rx_state[r]) = K
       THEN /\ EndOperation(r, PRAKIS_GET_TAG_DATA,
                 [TagValue_var[r] EXCEPT !.Value = Decoded(rx_state[r])])
            /\ UNCHANGED processVars
       ELSE /\ panics' = panics \cup {"exactly K coded blocks"}
            /\ stopped' = stopped \cup {r}
            /\ UNCHANGED <<busy, phaseVars, replies, historyVars>>
  /\ UNCHANGED <<server_state_variables, Opnum, incarnation, requests, drops>>

\* read_PRAKIS when the tags differed: relays are asked for from the largest on.
ReaderAsksForRelays(r) ==
  /\ HasQuorum(r) /\ Phase[r] = PRAKIS_GET_TAG_DATA /\ ~ IsOnePhase[r]
  /\ EnterPhase(r, PRAKIS_RELAY_DATA, TagValue_var[r])
  /\ SendToServers(r, Opnum[r], PRAKIS_RELAY_DATA, ToAll(TagValue_var[r]))
  /\ UNCHANGED <<server_state_variables, processVars, busy, Opnum, incarnation,
                 historyVars>>

\* rx_state with another element: the same tag and index are overwritten.
AddElement(rx, tv) ==
  {e \in rx : e.Tag_var # tv.Tag_var \/ e.CodeIndex # tv.CodeIndex} \cup {tv}

\* One turn of the loop of relayDataPrakis with a useful relay.  A tag above the
\* one asked for is also committed, once, "to take care of writer failures".
CollectRelay(r, s) ==
  /\ r \in busy /\ Running(r) /\ Phase[r] = PRAKIS_RELAY_DATA
  /\ replies[r][s] # <<>>
  /\ LET tv == Head(replies[r][s]).TagValue_var
         rest == [replies EXCEPT ![r][s] = Tail(@)]
         rx == AddElement(rx_state[r], tv)
         elements == {e \in rx : e.Tag_var = tv.Tag_var}
         commits == /\ IsSmallerThan(TagValue_var[r].Tag_var, tv.Tag_var)
                    /\ tv.Tag_var \notin tagsRequested[r] IN
       IF IsSmallerThan(tv.Tag_var, TagValue_var[r].Tag_var)
         THEN /\ panics' = panics \cup {"a tag less than requested tag"}
              /\ stopped' = stopped \cup {r}
              /\ replies' = rest
              /\ UNCHANGED <<busy, phaseVars, requests, drops, historyVars>>
       ELSE IF Cardinality(elements) = K
         THEN /\ EndOperation(r, PRAKIS_READ_COMPLETE,
                   [TagOnly(tv.Tag_var, 0) EXCEPT !.Value = Decoded(elements)])
              /\ SendToServers(r, Opnum[r], PRAKIS_READ_COMPLETE,
                               ToAll(TagOnly(ZeroTag, 0)))
              /\ UNCHANGED processVars
         ELSE /\ rx_state' = [rx_state EXCEPT ![r] = rx]
              /\ replies' = rest
              /\ IF commits
                   THEN /\ tagsRequested' = [tagsRequested EXCEPT ![r] = @ \cup {tv.Tag_var}]
                        /\ SendToServers(r, Opnum[r], PRAKIS_RELAY_DATA,
                             ToAll([TagOnly(tv.Tag_var, tv.Opnum) EXCEPT !.ToCommit = TRUE]))
                   ELSE UNCHANGED <<tagsRequested, requests, drops>>
              /\ UNCHANGED <<processVars, busy, Phase, num_responses, TagValue_var,
                             IsOnePhase, responders, historyVars>>
  /\ UNCHANGED <<server_state_variables, Opnum, incarnation>>

\* hasFailed between two operations: new sockets and a new poller.
emulateNewClient(c) ==
  /\ c \notin busy /\ Running(c)
  /\ incarnation[c] < MaxIncarnation
  /\ incarnation' = [incarnation EXCEPT ![c] = @ + 1]
  /\ UNCHANGED <<server_state_variables, processVars, busy, Opnum, phaseVars, netVars,
                 historyVars>>

-----------------------------------------------------------------------------
(* The state of one server *)

\* Mutant: entries of different writers are confused.
SameWrite_anyWriter(x, tag, opnum) == x.opnum = opnum

\* writesInProgress is a map of writers and opnums.
SameWrite(x, tag, opnum) == x.Client_id = tag.Client_id /\ x.opnum = opnum
EntriesOf(st, tag, opnum) == {x \in st.writesInProgress : SameWrite(x, tag, opnum)}
isWriteFinalized(st, tag, opnum) == \E x \in EntriesOf(st, tag, opnum) : x.isFinalized
isWriteInProgress(st, tag, opnum) == \E x \in EntriesOf(st, tag, opnum) : ~ x.isFinalized

SetEntry(st, tag, opnum, tagValue, isFinalized) ==
  [st EXCEPT !.writesInProgress = (@ \ EntriesOf(st, tag, opnum)) \cup
    {[Client_id |-> tag.Client_id, opnum |-> opnum, tagValue |-> tagValue,
      isFinalized |-> isFinalized]}]

\* latestOpnumWriters is read and never assigned.
latestOpnumWriters == 0

\* The pair that committing tag for the write makes final: the element in the
\* list, under the tag that is committed.
Committed(st, tag, opnum) ==
  [(CHOOSE x \in EntriesOf(st, tag, opnum) : TRUE).tagValue EXCEPT !.Tag_var = tag]

Forget(st, tag, opnum) == st.writesInProgress \ EntriesOf(st, tag, opnum)

\* The state after commitTagRespPrakis: the element leaves the list and is kept
\* if its tag is the largest; without an element the tag is noted for the put
\* that is still to come.
commitTag(st, tag, opnum) ==
  IF isWriteInProgress(st, tag, opnum)
    THEN [st EXCEPT !.writesInProgress = Forget(st, tag, opnum),
                    !.tagCodedElement_var = IF IsSmallerThan(@.Tag_var, tag)
                      THEN Committed(st, tag, opnum) ELSE @]
  ELSE IF opnum > latestOpnumWriters
    THEN SetEntry(st, tag, opnum, TagOnly(tag, opnum), TRUE)
    ELSE st

\* Mutant: a read of a tag is sent larger tags only.
IsServed_larger(x, tag) == isGreaterTag(tag, x.tag_request)

\* The registered reads that are sent what is committed under tag.
IsServed(x, tag) == ~ isGreaterTag(x.tag_request, tag)

\* The replies after commitTagRespPrakis on server s, in state st, and
\* relayMessage: a reader listens to its read in progress, on its current sockets.
Relayed(s, st, tag, opnum) ==
  LET Listens(r, x) ==
        /\ x.reader_name = r /\ x.opnum = Opnum[r]
        /\ x.zmq_identity = incarnation[r] /\ IsServed(x, tag)
      relay(r) == [Opnum |-> Opnum[r], Phase |-> PRAKIS_RELAY_DATA,
                   TagValue_var |-> Committed(st, tag, opnum)] IN
  [c \in Clients |->
     IF /\ c \in Readers /\ isWriteInProgress(st, tag, opnum)
        /\ \E x \in st.readsInProgress : Listens(c, x)
        /\ isMessageUseful(c, relay(c))
       THEN [replies[c] EXCEPT ![s] = Append(@, relay(c))]
       ELSE replies[c]]

\* The replies rep after server s answers c, on the socket of incarnation i.
Answered(rep, c, i, s, m) ==
  IF i = incarnation[c] /\ isMessageUseful(c, m)
    THEN [rep EXCEPT ![c][s] = Append(@, m)]
    ELSE rep

Becomes(s, st) ==
  server_state_variables' = [server_state_variables EXCEPT ![s] = st]

-----------------------------------------------------------------------------
(* Servers.  st is the state of server s, m the message from incarnation i of c. *)

\* A put whose tag is not final yet joins the list under the next tag.
putDataResp(s, st, c, i, m) ==
  LET tv == m.TagValue_var
      newTag == [Version_num |-> st.tagCodedElement_var.Tag_var.Version_num + 1,
                 Client_id |-> tv.Tag_var.Client_id] IN
  /\ m.Phase = PRAKIS_PUT_DATA
  /\ ~ isWriteFinalized(st, tv.Tag_var, tv.Opnum)
  /\ Becomes(s, SetEntry(st, tv.Tag_var, tv.Opnum, [tv EXCEPT !.Tag_var = newTag], FALSE))
  /\ replies' = Answered(replies, c, i, s, [m EXCEPT !.TagValue_var = TagOnly(newTag, 0)])

\* PRAKIS_responses commits a late put under the tag of the writer's message.
TagOfLatePut(st, m) == m.TagValue_var.Tag_var

\* A put whose tag was noted as final before it came: it is committed at once
\* and not answered.
putDataRespFinalized(s, st, c, i, m) ==
  LET tv == m.TagValue_var
      noted == CHOOSE x \in EntriesOf(st, tv.Tag_var, tv.Opnum) : TRUE
      put == SetEntry(st, tv.Tag_var, tv.Opnum,
                      [tv EXCEPT !.Tag_var = noted.tagValue.Tag_var], FALSE)
      tag == TagOfLatePut(st, m) IN
  /\ m.Phase = PRAKIS_PUT_DATA
  /\ isWriteFinalized(st, tv.Tag_var, tv.Opnum)
  /\ Becomes(s, commitTag(put, tag, tv.Opnum))
  /\ replies' = Relayed(s, put, tag, tv.Opnum)

putTagResp(s, st, c, i, m) ==
  LET tv == m.TagValue_var IN
  /\ m.Phase = PRAKIS_PUT_TAG
  /\ Becomes(s, commitTag(st, tv.Tag_var, tv.Opnum))
  /\ replies' = Answered(Relayed(s, st, tv.Tag_var, tv.Opnum), c, i, s,
                         [m EXCEPT !.TagValue_var = TagOnly(ZeroTag, 0)])

getTagDataResp(s, st, c, i, m) ==
  /\ m.Phase = PRAKIS_GET_TAG_DATA
  /\ replies' = Answered(replies, c, i, s, [m EXCEPT !.TagValue_var = st.tagCodedElement_var])
  /\ UNCHANGED server_state_variables

\* A reader commits a tag it has received an element of.
commitForReader(s, st, m) ==
  LET tv == m.TagValue_var IN
  /\ m.Phase = PRAKIS_RELAY_DATA /\ tv.ToCommit
  /\ Becomes(s, commitTag(st, tv.Tag_var, tv.Opnum))
  /\ replies' = Relayed(s, st, tv.Tag_var, tv.Opnum)

\* Mutant: an answer whatever the local tag.
AnswersNow_always(st, tag_req) == TRUE

AnswersNow(st, tag_req) == ~ isGreaterTag(tag_req, st.tagCodedElement_var.Tag_var)

\* registerReadPrakis, then the commit of the tag asked for with its relays, then
\* the answer to the reader: the pair held before that commit.
registerRead(s, st, r, i, m) ==
  LET tv == m.TagValue_var
      registered == [st EXCEPT !.readsInProgress =
        {x \in @ : ~ (x.reader_name = r /\ x.opnum = m.Opnum)} \cup
        {[reader_name |-> r, opnum |-> m.Opnum, tag_request |-> tv.Tag_var,
          zmq_identity |-> i]}]
      relayed == Relayed(s, registered, tv.Tag_var, tv.Opnum) IN
  /\ m.Phase = PRAKIS_RELAY_DATA /\ ~ tv.ToCommit
  /\ Becomes(s, commitTag(registered, tv.Tag_var, tv.Opnum))
  /\ replies' = IF AnswersNow(st, tv.Tag_var)
       THEN Answered(relayed, r, i, s, [m EXCEPT !.TagValue_var = st.tagCodedElement_var])
       ELSE relayed

\* Mutant: the read stays registered.
readCompleteResp_keeps(s, st, r, m) ==
  m.Phase = PRAKIS_READ_COMPLETE /\ UNCHANGED <<server_state_variables, replies>>

readCompleteResp(s, st, r, m) ==
  /\ m.Phase = PRAKIS_READ_COMPLETE
  /\ Becomes(s, [st EXCEPT !.readsInProgress =
       {x \in @ : ~ (x.reader_name = r /\ x.opnum = m.Opnum)}])
  /\ UNCHANGED replies

\* server_worker handles the next message from the socket of incarnation i of c.
ServerStep(s, c, i) ==
  /\ Running(s)
  /\ requests[c][i][s] # <<>>
  /\ requests' = [requests EXCEPT ![c][i][s] = Tail(@)]
  /\ LET m == Head(requests[c][i][s])
         st == server_state_variables[s] IN
       \/ putDataResp(s, st, c, i, m)
       \/ putDataRespFinalized(s, st, c, i, m)
       \/ putTagResp(s, st, c, i, m)
       \/ getTagDataResp(s, st, c, i, m)
       \/ commitForReader(s, st, m)
       \/ registerRead(s, st, c, i, m)
       \/ readCompleteResp(s, st, c, m)
  /\ UNCHANGED <<processVars, busy, Opnum, incarnation, phaseVars, drops, historyVars>>

\* KillSelf: a server exits and is not restarted.
KillServer(s) ==
  /\ Running(s) /\ Cardinality(stopped \cap Servers) < MaxKilledServers
  /\ stopped' = stopped \cup {s}
  /\ UNCHANGED <<server_state_variables, panics, busy, Opnum, incarnation, phaseVars,
                 netVars, historyVars>>

-----------------------------------------------------------------------------
ClientStep(c) ==
  \/ StartRead(c) \/ StartWrite(c)
  \/ \E s \in Servers : CollectReply(c, s) \/ CollectRelay(c, s)
  \/ WriterPutsTag(c) \/ PutTagCompletes(c)
  \/ ReadInOnePhase(c) \/ ReaderAsksForRelays(c)
  \/ emulateNewClient(c)

\* Nothing is left to do, or to wait for.
AllDone ==
  /\ \A c \in Clients : c \in stopped \/ c \notin busy
  /\ UNCHANGED vars

Next ==
  \/ \E c \in Clients : ClientStep(c)
  \/ \E s \in Servers, c \in Clients, i \in Incarnations : ServerStep(s, c, i)
  \/ \E s \in Servers : KillServer(s)
  \/ AllDone

Spec == Init /\ [][Next]_vars

\* As for Abd: servers serve every socket, clients poll and return.
Fairness ==
  /\ \A s \in Servers, c \in Clients, i \in Incarnations :
       WF_vars(ServerStep(s, c, i))
  /\ \A c \in Clients, s \in Servers :
       WF_vars(CollectReply(c, s) \/ CollectRelay(c, s))
  /\ \A c \in Clients :
       WF_vars(WriterPutsTag(c) \/ PutTagCompletes(c)
               \/ ReadInOnePhase(c) \/ ReaderAsksForRelays(c))

FairSpec == Spec /\ Fairness
-----------------------------------------------------------------------------
(* Properties *)

\* The variables keep their types.
TypeOK ==
  /\ server_state_variables \in [Servers -> SingleObjServerState]
  /\ stopped \subseteq Servers \cup Clients
  /\ busy \subseteq Clients
  /\ Opnum \in [Clients -> Nat] /\ \A c \in Clients : Opnum[c] <= MaxOpnum[c]
  /\ \A c \in busy : Opnum[c] >= 1
  /\ Phase \in [Clients -> Phases]
  /\ incarnation \in [Clients -> Incarnations]
  /\ num_responses \in [Clients -> Nat]
  /\ TagValue_var \in [Clients -> TagValue]
  /\ IsOnePhase \in [Clients -> BOOLEAN]
  /\ rx_state \in [Clients -> SUBSET TagValue]
  /\ tagsRequested \in [Clients -> SUBSET AnyTag]
  /\ responders \in [Clients -> SUBSET Servers]
  /\ requests \in [Clients -> [Incarnations -> [Servers -> Seq(Message)]]]
  /\ replies \in [Clients -> [Servers -> Seq(Message)]]
  /\ drops \in 0..MaxDrops
  /\ floor \in [Clients -> Tag] /\ completed \in Tag

local(s) == server_state_variables[s].tagCodedElement_var

\* Once an operation has ended, K servers hold its tag or a larger one: a write
\* has K acknowledgements of its commit (putTagPrakis 61-74), a read has decoded
\* K elements that servers had committed.
CompletedIsStored ==
  Cardinality({s \in Servers : AtLeast(local(s).Tag_var, completed)}) >= K

\* What a server holds under the tag of a write is its element of that write; in
\* particular a tag is never committed for the element of another write.
ServersHoldTheirElements ==
  \A s \in Servers : local(s).Tag_var # InitialTag =>
    /\ local(s).CodeIndex = s
    /\ \A q \in Servers : local(q).Tag_var = local(s).Tag_var =>
         local(q).Value = local(s).Value

\* No read is sent an element older than the tag it asked for (the os.Exit(9) of
\* relayDataPrakis 200-205).
ReaderGetsRequestedTag == "a tag less than requested tag" \notin panics

\* No operation has a tag below that of an operation that had ended when it began
\* (P1 of safetyAnalyzer.go, 175-192).  A put whose tag was finalized before it came
\* is to be stored under that tag (comment of putDataRespPrakis 538); if it is not,
\* a server acknowledges a commit of what it has dropped.
P1 == \A e \in log : AtLeast(e.TagValue_var.Tag_var, e.floor)

\* A read that has ended stays registered only while its READ_COMPLETE is on its
\* way (readCompleteRespPrakis 595-602).
ReadsAreUnregistered ==
  \A s \in Servers : \A x \in server_state_variables[s].readsInProgress :
    LET r == x.reader_name IN
      \/ r \in busy /\ x.opnum = Opnum[r]
      \/ \E m \in Range(requests[r][x.zmq_identity][s]) :
           m.Opnum = x.opnum /\ m.Phase = PRAKIS_READ_COMPLETE

\* The object a client operates on, and the pair that a writer has chosen: from
\* the moment write_PRAKIS enters its second phase.
TheObject == "object"
NoObject == "none"
Objname == [c \in Clients |-> IF c \in busy THEN TheObject ELSE NoObject]
chosen == [w \in Writers |->
  IF w \in busy /\ Phase[w] = PRAKIS_PUT_TAG
    THEN [Tag_var |-> TagValue_var[w].Tag_var, Value |-> <<w, Opnum[w]>>]
    ELSE [Tag_var |-> LowestTag, Value |-> NoValue]]

\* PRAKIS implements the tagged register that ABD and SODAW implement.
Register == INSTANCE TaggedRegister WITH
  Objects <- {TheObject},
  Ids <- [w \in Writers |-> {NameTag[w]}],
  InitialValue <- NoValue,
  completed <- [o \in {TheObject} |-> completed],
  log <- [o \in {TheObject} |-> log]

ImplementsRegister == Register!Spec

\* With no request lost and no server killed, every operation on a written object
\* that starts also returns.
OperationsEnd ==
  \A c \in Clients : c \in busy ~> (c \notin busy \/ c \in stopped)
=============================================================================
