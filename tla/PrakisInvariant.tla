---------------------------- MODULE PrakisInvariant ----------------------------
(***************************************************************************)
(* The inductive invariants behind the safety properties of Prakis.        *)
(* ChannelInv and TagInv always hold, RegInv when no request is lost, and  *)
(* StoreInv when an element of every server is needed, K = N               *)
(* (PrakisProofs).                                                         *)
(***************************************************************************)
EXTENDS Prakis, Channels

\* Requests are lost by nobody.
NothingLost == MaxDrops = 0

\* An element of each server is needed to decode: Rate = 1.
AllServersNeeded == K = Cardinality(Servers)

\* The messages, requests or replies, of the phase client c is in.
Current(c) ==
  {m \in Message : c \in busy /\ m.Opnum = Opnum[c] /\ m.Phase = Phase[c]}

-----------------------------------------------------------------------------
(* Channels *)

FirstPhases == {PRAKIS_PUT_DATA, PRAKIS_GET_TAG_DATA}
PhasesOf(c) ==
  IF c \in Readers THEN {PRAKIS_GET_TAG_DATA, PRAKIS_RELAY_DATA, PRAKIS_READ_COMPLETE}
                   ELSE {PRAKIS_PUT_DATA, PRAKIS_PUT_TAG}

\* No message is newer than the operation its client is in, or than its phase.
NotFromTheFuture(c, m) ==
  /\ m.Phase \in PhasesOf(c)
  /\ m.Opnum <= Opnum[c]
  /\ c \in busy /\ m.Opnum = Opnum[c] /\ m.Phase \notin FirstPhases => m.Phase = Phase[c]

InOrder(c) ==
  /\ c \in busy => Phase[c] \in PhasesOf(c) \ {PRAKIS_READ_COMPLETE}
  /\ \A s \in Servers :
       /\ \A i \in Incarnations : \A m \in Messages(requests[c][i][s]) :
            NotFromTheFuture(c, m)
       /\ Messages(replies[c][s]) \subseteq Current(c)

\* In a phase that counts replies, a current message exists at most once on the
\* way to a server or on the way back, and no more once it was counted.
Counts(c) == c \in busy /\ Phase[c] # PRAKIS_RELAY_DATA

OneCurrent(c) ==
  Counts(c) =>
    \A s \in Servers :
      /\ AtMostOne(replies[c][s], Current(c))
      /\ replies[c][s] # <<>> => s \notin responders[c]
      /\ \A i \in Incarnations :
           /\ AtMostOne(requests[c][i][s], Current(c))
           /\ Messages(requests[c][i][s]) \cap Current(c) # {} =>
                i = incarnation[c] /\ s \notin responders[c] /\ replies[c][s] = <<>>

Counted(c) ==
  Counts(c) =>
    /\ num_responses[c] = Cardinality(responders[c])
    /\ num_responses[c] <= quorum_size

ChannelInvOf(c) == InOrder(c) /\ OneCurrent(c) /\ Counted(c)
ChannelInv == \A c \in Clients : ChannelInvOf(c)

-----------------------------------------------------------------------------
(* The tag a read asks for *)

readsOf(s, r) ==
  {x \in server_state_variables[s].readsInProgress : x.reader_name = r}

\* The requests that register operation o, and those that end its registration.
Asks(o) == {m \in Message : m.Phase = PRAKIS_RELAY_DATA /\ m.Opnum = o
                            /\ ~ m.TagValue_var.ToCommit}
Ends(o) == {m \in Message : m.Phase = PRAKIS_READ_COMPLETE /\ m.Opnum = o}

IsWaiting(r) == r \in busy /\ Phase[r] = PRAKIS_RELAY_DATA

\* A registration of reader r is of no later operation, and of this one only while
\* it waits for relays, for the tag it asked for.
WaitsForTag(r, x) ==
  /\ x.opnum <= Opnum[r]
  /\ r \in busy /\ x.opnum = Opnum[r] =>
       Phase[r] = PRAKIS_RELAY_DATA /\ x.tag_request = TagValue_var[r].Tag_var
\* While it waits, it asks the servers for that tag, and is sent none below it.
AsksForTag(r, m) ==
  IsWaiting(r) /\ m \in Asks(Opnum[r]) => m.TagValue_var.Tag_var = TagValue_var[r].Tag_var
HasTagAskedFor(r, m) ==
  IsWaiting(r) => AtLeast(m.TagValue_var.Tag_var, TagValue_var[r].Tag_var)

TagInvOf(r) ==
  \A s \in Servers :
    /\ \A x \in readsOf(s, r) : WaitsForTag(r, x)
    /\ \A m \in Messages(replies[r][s]) : HasTagAskedFor(r, m)
    /\ \A i \in Incarnations : \A m \in Messages(requests[r][i][s]) : AsksForTag(r, m)
TagInv == \A c \in Clients : TagInvOf(c)

TInv == TypeOK /\ ChannelInv /\ TagInv /\ ReaderGetsRequestedTag

-----------------------------------------------------------------------------
(* Registrations *)

Underway(r, i, o) == r \in busy /\ o = Opnum[r] /\ i = incarnation[r]

\* READ_COMPLETE of operation o is in q behind position k.
EndsAfter(q, k, o) == \E l \in 1..Len(q) : k < l /\ q[l] \in Ends(o)

\* A registration, and a request for one, is of a read in progress, or its
\* READ_COMPLETE follows on the same socket.
RegInvOf(r) ==
  \A s \in Servers :
    /\ \A i \in Incarnations : LET q == requests[r][i][s] IN
         \A k \in 1..Len(q) : \A o \in {q[k].Opnum} :
           q[k] \in Asks(o) => Underway(r, i, o) \/ EndsAfter(q, k, o)
    /\ \A x \in readsOf(s, r) :
         \/ Underway(r, x.zmq_identity, x.opnum)
         \/ EndsAfter(requests[r][x.zmq_identity][s], 0, x.opnum)
RegInv == \A c \in Clients : RegInvOf(c)

RInv == TInv /\ RegInv

-----------------------------------------------------------------------------
(* Writes, when an element of every server is needed *)

\* Operation o of writer w, whose tag is chosen, has tag t.
Wrote(w, o, t) ==
  \/ \E e \in log : e.client = w /\ e.TagValue_var = [Tag_var |-> t, Value |-> <<w, o>>]
  \/ /\ w \in busy /\ Phase[w] = PRAKIS_PUT_TAG
     /\ o = Opnum[w] /\ t = TagValue_var[w].Tag_var

HasTag(w, o) ==
  \/ \E e \in log : e.client = w /\ e.TagValue_var.Value = <<w, o>>
  \/ w \in busy /\ Phase[w] = PRAKIS_PUT_TAG /\ o = Opnum[w]

\* Tags that writer w may choose.
TagsOf(w) == [Version_num : Nat \ {0}, Client_id : {NameTag[w]}]

\* The log is below what has ended and below what the same client is doing now;
\* no two writes have one tag, nor one write two.
LogOf(e) ==
  /\ e.client \in Clients /\ e.TagValue_var.Tag_var \in Tag
  /\ AtLeast(completed, e.TagValue_var.Tag_var)
  /\ e.client \in busy => AtLeast(floor[e.client], e.TagValue_var.Tag_var)
  /\ e.client \in Writers =>
       /\ e.TagValue_var.Tag_var \in TagsOf(e.client)
       /\ \E o \in 1..Opnum[e.client] :
            /\ e.TagValue_var.Value = <<e.client, o>>
            /\ e.client \in busy => o < Opnum[e.client]

LogInv ==
  /\ \A e \in log : LogOf(e)
  /\ \A e, f \in log :
       /\ e.client \in Writers /\ f.client \in Writers
       /\ \/ e.TagValue_var.Tag_var = f.TagValue_var.Tag_var
          \/ e.TagValue_var.Value = f.TagValue_var.Value
       => e = f

\* An element of server s: of the initial pair, or its own of a write.
OwnElement(s, e) ==
  /\ e.CodeIndex = s
  /\ \E w \in Writers : e.Value = <<w, e.Opnum>> /\ Wrote(w, e.Opnum, e.Tag_var)
ElementOf(s, e) == e = TagOnly(InitialTag, 0) \/ OwnElement(s, e)

\* What a commit refers to: the initial tag, which no write has, or a write.
CommitOf(tv) ==
  \/ tv.Tag_var = InitialTag /\ tv.Opnum = 0
  \/ \E w \in Writers : tv.Tag_var.Client_id = NameTag[w] /\ Wrote(w, tv.Opnum, tv.Tag_var)

-----------------------------------------------------------------------------
(* What a server holds *)

\* The element of operation o of writer w in the list of server s.
Element(w, o, s, tv) ==
  tv.Value = <<w, o>> /\ tv.CodeIndex = s /\ tv.Opnum = o

EntryOK(s, x) ==
  \E w \in Writers :
    /\ x.Client_id = NameTag[w]
    /\ IF x.isFinalized THEN HasTag(w, x.opnum)
       ELSE x.opnum \in 1..Opnum[w] /\ Element(w, x.opnum, s, x.tagValue)

InList(s, w, o) ==
  \E x \in server_state_variables[s].writesInProgress :
    x.Client_id = NameTag[w] /\ x.opnum = o /\ ~ x.isFinalized

Stored(s) == local(s).Tag_var

ServerInvOf(s) ==
  /\ ElementOf(s, local(s))
  /\ AtLeast(Stored(s), completed)
  /\ \A x \in server_state_variables[s].writesInProgress : EntryOK(s, x)
  /\ \A x, y \in server_state_variables[s].writesInProgress :
       x.Client_id = y.Client_id /\ x.opnum = y.opnum => x = y
ServerInv == \A s \in Servers : ServerInvOf(s)

\* Server s has answered client c in its phase.
HasAnswered(s, c) == s \in responders[c] \/ replies[c][s] # <<>>

-----------------------------------------------------------------------------
(* What a client has received *)

\* A writer's requests are of its phase: it has waited for every server.
WriterRequests(w, s) ==
  \A i \in Incarnations : \A m \in Messages(requests[w][i][s]) :
    /\ m \in Current(w)
    /\ m.TagValue_var.Opnum = Opnum[w]
    /\ IF Phase[w] = PRAKIS_PUT_DATA
         THEN /\ Element(w, Opnum[w], s, m.TagValue_var)
              /\ m.TagValue_var.Tag_var.Client_id = NameTag[w]
         ELSE m.TagValue_var.Tag_var = TagValue_var[w].Tag_var

\* Proposals are above the floor, and so is their maximum.
Proposed(w, t) == t \in TagsOf(w) /\ isGreaterTag(t, floor[w])

WriterInvOf(w) ==
  /\ \A s \in Servers : WriterRequests(w, s)
  /\ w \in busy /\ Phase[w] = PRAKIS_PUT_DATA =>
       /\ IF responders[w] = {} THEN TagValue_var[w].Tag_var = LowestTag
                                ELSE Proposed(w, TagValue_var[w].Tag_var)
       /\ \A s \in Servers :
            /\ \A m \in Messages(replies[w][s]) : Proposed(w, m.TagValue_var.Tag_var)
            /\ HasAnswered(s, w) => InList(s, w, Opnum[w])
  /\ w \in busy /\ Phase[w] = PRAKIS_PUT_TAG =>
       /\ Proposed(w, TagValue_var[w].Tag_var)
       /\ \A s \in Servers :
            \/ AtLeast(Stored(s), TagValue_var[w].Tag_var)
            \/ ~ HasAnswered(s, w) /\ InList(s, w, Opnum[w])

\* Server s sends reader r an element that it holds.
Held(s, e) == ElementOf(s, e) /\ AtLeast(Stored(s), e.Tag_var)

\* What reader r received in its phase and has to commit.
Asked(r) == CommitOf(TagValue_var[r]) /\ AtLeast(TagValue_var[r].Tag_var, floor[r])

ReaderInvOf(r) ==
  /\ \A i \in Incarnations, s \in Servers : \A m \in Messages(requests[r][i][s]) :
       m.Phase = PRAKIS_RELAY_DATA => CommitOf(m.TagValue_var)
  /\ r \in busy =>
       /\ \A s \in Servers : \A m \in Messages(replies[r][s]) : Held(s, m.TagValue_var)
       /\ \A e \in rx_state[r] : \E s \in Servers : e.CodeIndex = s /\ Held(s, e)
  /\ r \in busy /\ Phase[r] = PRAKIS_GET_TAG_DATA =>
       /\ IF responders[r] = {} THEN TagValue_var[r].Tag_var = LowestTag ELSE Asked(r)
       /\ \A s \in Servers :
            /\ \A m \in Messages(replies[r][s]) : AtLeast(m.TagValue_var.Tag_var, floor[r])
            /\ s \in responders[r] /\ IsOnePhase[r] =>
                 AtLeast(Stored(s), TagValue_var[r].Tag_var)
       /\ \A e \in rx_state[r] : e.Tag_var = TagValue_var[r].Tag_var
  /\ r \in busy /\ Phase[r] = PRAKIS_RELAY_DATA =>
       /\ Asked(r)
       /\ \A e, f \in rx_state[r] :
            e.Tag_var = f.Tag_var /\ e.CodeIndex = f.CodeIndex => e = f

FloorsInv == \A c \in busy : AtLeast(completed, floor[c])

StoreInv ==
  /\ LogInv /\ ServerInv /\ FloorsInv
  /\ \A w \in Writers : WriterInvOf(w)
  /\ \A r \in Readers : ReaderInvOf(r)

SInv == TInv /\ StoreInv
=============================================================================
