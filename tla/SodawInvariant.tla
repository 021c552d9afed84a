---------------------------- MODULE SodawInvariant ----------------------------
(***************************************************************************)
(* The inductive invariants behind the safety properties of Sodaw.         *)
(* ChannelInv always holds, RInv when no request is lost (both proved in   *)
(* SodawProofs), and IInv always; WInv holds when no write of a file fails *)
(* and objects are written before they are read, and VInv, with the        *)
(* values, when SODAW_FAST also keeps them in memory (SodawRefinement).    *)
(***************************************************************************)
EXTENDS Sodaw, Channels

\* Every write of a file succeeds.
NoFailedWrite == MaxDiskErrors = 0

\* Requests are lost only when the process that sends them is killed.
NothingLost == MaxDrops = 0

Stored(s) == tagCodedElement_var[s].Tag_var

\* The messages, requests or replies, of the phase client c is in.
Current(c) ==
  {m \in Message : c \in busy /\ m.Opnum = Opnum[c] /\ m.Phase = Phase[c]}

-----------------------------------------------------------------------------
(* Channels *)

\* No message is newer than the operation its client is in, or than its phase.
NotFromTheFuture(c, m) ==
  /\ m.Opnum <= Opnum[c]
  /\ /\ c \in busy /\ m.Opnum = Opnum[c]
     /\ m.Phase \in {SODAW_PUT_DATA, SODAW_GET_DATA, SODAW_READ_COMPLETE}
     => m.Phase = Phase[c]

InOrder(c) ==
  /\ c \in busy => Phase[c] # SODAW_READ_COMPLETE
  /\ c \in busy /\ c \in Readers => Phase[c] # SODAW_PUT_DATA
  /\ \A s \in Servers :
       /\ \A i \in Incarnations : \A m \in Messages(requests[c][i][s]) :
            NotFromTheFuture(c, m)
       /\ Messages(replies[c][s]) \subseteq Current(c)

\* In a phase that counts replies, a current message exists at most once on the
\* way to a server or on the way back, and no more once it was counted.
OneCurrent(c) ==
  c \in busy /\ CountsReplies(c) =>
    \A s \in Servers :
      /\ AtMostOne(replies[c][s], Current(c))
      /\ replies[c][s] # <<>> => s \notin responders[c]
      /\ \A i \in Incarnations :
           /\ AtMostOne(requests[c][i][s], Current(c))
           /\ Messages(requests[c][i][s]) \cap Current(c) # {} =>
                i = incarnation[c] /\ s \notin responders[c] /\ replies[c][s] = <<>>

Counted(c) ==
  c \in busy /\ CountsReplies(c) =>
    /\ num_responses[c] = Cardinality(responders[c])
    /\ num_responses[c] <= quorum_size(Phase[c])

ChannelInvOf(c) == InOrder(c) /\ OneCurrent(c) /\ Counted(c)
ChannelInv == \A c \in Clients : ChannelInvOf(c)

-----------------------------------------------------------------------------
(* Servers *)

\* A server holds a tag no older than the initial one.  Its file, once written,
\* has its own element and that tag, or an older one if a write of it failed;
\* without files, memory has its own element.
ServerInvOf(s) ==
  /\ Stored(s) \in Tag /\ AtLeast(Stored(s), InitialTag)
  /\ UseDisk =>
       \/ disk[s].Tag_var = LowestTag /\ (s \in diskErrors \/ Stored(s) = InitialTag)
       \/ /\ disk[s].Tag_var \in Tag /\ AtLeast(disk[s].Tag_var, InitialTag)
          /\ disk[s].CodeIndex = s
          /\ s \in diskErrors \/ disk[s].Tag_var = Stored(s)
  /\ ~ UseDisk => Stored(s) = InitialTag \/ tagCodedElement_var[s].CodeIndex = s
ServerInv == \A s \in Servers : ServerInvOf(s)

-----------------------------------------------------------------------------
(* Order *)

\* Server s holds tag t or a larger one, unless a write of its file failed.
Holds(s, t) == s \in diskErrors \/ AtLeast(Stored(s), t)

\* K servers hold the tag of every operation that ended.
Holders(t) == {s \in Servers : Holds(s, t)}
CompletedHeld == Cardinality(Holders(completed)) >= K

\* A server that holds the floor of an operation in its query has answered, if
\* it has, a tag as large.
FloorAnswered(c, s) ==
  /\ AtLeast(Stored(s), floor[c])
  /\ \A m \in Messages(replies[c][s]) : AtLeast(m.TagValue_var.Tag_var, floor[c])
  /\ s \in responders[c] => AtLeast(TagValue_var[c].Tag_var, floor[c])

\* A server holds at least the tag of each answer it gave to a query in
\* progress; while all answers agree that is the tag of the client.
AnswerStored(c, s) ==
  /\ \A m \in Messages(replies[c][s]) : Holds(s, m.TagValue_var.Tag_var)
  /\ s \in responders[c] /\ IsOnePhase[c] => Holds(s, TagValue_var[c].Tag_var)

InQuery(c) == c \in busy /\ Phase[c] \in {SODAW_GET_TAG, SODAW_FAST_GET_TAG_DATA}

QueryInv(c) ==
  InQuery(c) =>
    /\ IF responders[c] = {} THEN TagValue_var[c].Tag_var = LowestTag
                             ELSE TagValue_var[c].Tag_var \in Tag
    /\ diskErrors = {} =>
         \E Q \in SUBSET Servers :
           Cardinality(Q) >= majority /\ \A s \in Q : FloorAnswered(c, s)
    /\ \A s \in Servers : AnswerStored(c, s)

\* The requests of a put carry its tag, and a server that acknowledged holds it.
PutInv(c) ==
  c \in busy /\ Phase[c] = SODAW_PUT_DATA =>
    /\ TagValue_var[c].Tag_var \in Tag
    /\ \A s \in Servers :
         /\ \A i \in Incarnations : \A m \in Messages(requests[c][i][s]) \cap Current(c) :
              m.TagValue_var.Tag_var = TagValue_var[c].Tag_var
         /\ s \in responders[c] \/ replies[c][s] # <<>> => Holds(s, TagValue_var[c].Tag_var)

\* Server s sends reader r an element that it holds, and of its own index once
\* anything was put.
Own(s, tv) ==
  tv.Tag_var = InitialTag \/ (tv.CodeIndex = s /\ Holds(s, tv.Tag_var))

\* A reader that asks for data has one request, with the tag it asks for, and is
\* sent no older element; what it has received bears the index of a holder.
DataInv(c) ==
  c \in busy /\ Phase[c] = SODAW_GET_DATA =>
    /\ TagValue_var[c].Tag_var \in Tag
    /\ \A s \in Servers :
         /\ \A i \in Incarnations : \A m \in Messages(requests[c][i][s]) \cap Current(c) :
              m.TagValue_var.Tag_var = TagValue_var[c].Tag_var
         /\ \A m \in Messages(replies[c][s]) :
              /\ s \in diskErrors \/ AtLeast(m.TagValue_var.Tag_var, TagValue_var[c].Tag_var)
              /\ Own(s, m.TagValue_var)
    /\ \A e \in rx_state[c] : e.Tag_var \in Tag /\ Own(e.CodeIndex, e)
    /\ \A e, f \in rx_state[c] :
         e.Tag_var = f.Tag_var /\ e.CodeIndex = f.CodeIndex => e = f

\* A registration of an operation in progress is for the tag it asks for.
RegistrationInv ==
  \A s \in Servers : \A x \in readsInProgress[s] :
    LET r == x.reader_name IN
      /\ x.opnum <= Opnum[r]
      /\ r \in busy /\ x.opnum = Opnum[r] =>
           Phase[r] = SODAW_GET_DATA /\ x.tag_request = TagValue_var[r].Tag_var

\* Messages carry tags that were chosen, and a put the element of the server it
\* is sent to.
MessagesInv ==
  \A c \in Clients, s \in Servers :
    /\ \A i \in Incarnations : \A m \in Messages(requests[c][i][s]) :
         /\ m.TagValue_var.Tag_var \in Tag
         /\ m.Phase = SODAW_PUT_DATA => m.TagValue_var.CodeIndex = s
    /\ \A m \in Messages(replies[c][s]) : m.TagValue_var.Tag_var \in Tag

NoOldElement == diskErrors = {} => ReaderGetsRequestedTag

OrderInvOf(c) == QueryInv(c) /\ PutInv(c) /\ DataInv(c)
OrderInv ==
  /\ \A c \in Clients : OrderInvOf(c)
  /\ CompletedHeld /\ RegistrationInv /\ MessagesInv /\ NoOldElement

IInv == TypeOK /\ ChannelInv /\ ServerInv /\ OrderInv

-----------------------------------------------------------------------------
(* Reads of written objects *)

AboveInitial(t) == isGreaterTag(t, InitialTag)

\* What a reader collects in one phase: an element of each server that answered.
OnePhaseInv(c) ==
  InQuery(c) /\ Phase[c] = SODAW_FAST_GET_TAG_DATA =>
    /\ Fast /\ c \in Readers
    /\ ~ UseDisk =>
         /\ \A s \in Servers : \A m \in Messages(replies[c][s]) : Own(s, m.TagValue_var)
         /\ IsOnePhase[c] /\ TagValue_var[c].Tag_var # InitialTag =>
              /\ \A e, f \in rx_state[c] : e.CodeIndex = f.CodeIndex => e = f
              /\ {e.CodeIndex : e \in rx_state[c]} = responders[c]

\* Reads begin above the initial tag, and so does what they ask for.
WrittenOf(c) ==
  /\ c \in busy /\ c \in Readers => AboveInitial(floor[c])
  /\ c \in busy /\ Phase[c] = SODAW_GET_DATA => AboveInitial(TagValue_var[c].Tag_var)
  /\ \A i \in Incarnations, s \in Servers : \A m \in Messages(requests[c][i][s]) :
       m.Phase = SODAW_GET_DATA => AboveInitial(m.TagValue_var.Tag_var)
  /\ OnePhaseInv(c)

WrittenInv ==
  /\ \A c \in Clients : WrittenOf(c)
  /\ AtLeast(completed, InitialTag)
  /\ FilesExistWhenRead
  /\ DecoderGetsKBlocks \/ (Fast /\ UseDisk)

WInv == IInv /\ WrittenInv

-----------------------------------------------------------------------------
(* Values *)

InitialPair == Pair(TagOnly(InitialTag))
Names(w) == {NameTag[w][i] : i \in Incarnations}

\* The pairs of Register!Written(TheObject), in the variables of Sodaw.
IsWritten(p) ==
  \/ p = InitialPair
  \/ \E e \in log : e.client \in Writers /\ e.TagValue_var = p
  \/ \E w \in Writers \cap busy :
       Phase[w] = SODAW_PUT_DATA /\ Pair(TagValue_var[w]) = p

\* A write has a value and a tag of its writer's own.
WriterPair(w, p) ==
  p.Value \in Values /\ p.Tag_var \in [Version_num : Nat \ {0}, Client_id : Names(w)]

\* Elements that travel with their value are of pairs that were written, and so
\* is what a reader collects; in one phase all of it has the reader's tag.
ElementsWritten(c) ==
  /\ \A i \in Incarnations, s \in Servers : \A m \in Messages(requests[c][i][s]) :
       m.Phase = SODAW_PUT_DATA => IsWritten(Pair(m.TagValue_var))
  /\ c \in Readers /\ c \in busy =>
       /\ \A s \in Servers : \A m \in Messages(replies[c][s]) :
            m.Phase # SODAW_GET_TAG => IsWritten(Pair(m.TagValue_var))
       /\ \A e \in rx_state[c] :
            /\ IsWritten(Pair(e))
            /\ Phase[c] = SODAW_GET_DATA \/ e.Tag_var = TagValue_var[c].Tag_var

\* A write puts its own pair, above its floor; only a reader asks for data, and
\* for no older tag than its floor.
AboveFloor(c) ==
  /\ c \in Writers /\ c \in busy /\ Phase[c] = SODAW_PUT_DATA =>
       /\ WriterPair(c, Pair(TagValue_var[c]))
       /\ isGreaterTag(TagValue_var[c].Tag_var, floor[c])
  /\ c \in busy /\ Phase[c] = SODAW_GET_DATA =>
       c \in Readers /\ AtLeast(TagValue_var[c].Tag_var, floor[c])

\* So is what a server will send: its memory, or its file.
ServerWritten(s) ==
  IF UseDisk THEN disk[s].Tag_var # LowestTag => IsWritten(Pair(disk[s]))
             ELSE IsWritten(Pair(tagCodedElement_var[s]))

\* The log is below what has ended and below what the same client is doing now;
\* no two writes have one tag.
LogOf(e) ==
  /\ e.client \in Clients /\ e.TagValue_var.Tag_var \in Tag
  /\ e.client \in Writers => WriterPair(e.client, e.TagValue_var)
  /\ AtLeast(completed, e.TagValue_var.Tag_var)
  /\ e.client \in busy => AtLeast(floor[e.client], e.TagValue_var.Tag_var)

LogInv ==
  /\ \A e \in log : LogOf(e)
  /\ \A e, f \in log :
       /\ e.client \in Writers /\ f.client \in Writers
       /\ e.TagValue_var.Tag_var = f.TagValue_var.Tag_var
       => e = f

ValueInvOf(c) == ElementsWritten(c) /\ AboveFloor(c)
ValueInv ==
  /\ \A c \in Clients : ValueInvOf(c)
  /\ \A s \in Servers : ServerWritten(s)
  /\ LogInv

VInv == WInv /\ ValueInv

-----------------------------------------------------------------------------
(* Registrations *)

\* The requests that begin and end the registration of operation o.
Asks(o) == {m \in Message : m.Phase = SODAW_GET_DATA /\ m.Opnum = o}
Ends(o) == {m \in Message : m.Phase = SODAW_READ_COMPLETE /\ m.Opnum = o}

\* The reads of r that server s has registered, and the one in progress on the
\* socket of incarnation i.
Registered(s, r) == {x.opnum : x \in {y \in readsInProgress[s] : y.reader_name = r}}
Underway(r, i) == {o \in {Opnum[r]} : r \in busy /\ i = incarnation[r]}

\* The messages of one operation are on one socket, and the last one sent on the
\* current socket is of the operation in progress.
SocketInv(c) ==
  \A s \in Servers :
    /\ \A i, j \in Incarnations :
         \A m \in Messages(requests[c][i][s]), n \in Messages(requests[c][j][s]) :
           m.Opnum = n.Opnum => i = j
    /\ c \in busy =>
         \A i \in Incarnations : \A m \in Messages(requests[c][i][s]) :
           m.Opnum = Opnum[c] => i = incarnation[c]
    /\ c \in busy /\ Running(c) =>
         LET q == requests[c][incarnation[c]][s] IN
           q # <<>> => q[Len(q)].Opnum = Opnum[c]

\* GET_DATA finds its read unregistered, and READ_COMPLETE follows it once the
\* read has ended.
AskOrder(q, registered, underway) ==
  \A k \in DOMAIN q : q[k].Phase = SODAW_GET_DATA =>
    LET o == q[k].Opnum IN
      /\ o \notin registered
      /\ AtMostOne(q, Asks(o))
      /\ o \in underway \/ \E l \in DOMAIN q : k < l /\ q[l] \in Ends(o)

\* READ_COMPLETE finds its read registered, or GET_DATA is ahead of it.
EndOrder(q, registered) ==
  \A l \in DOMAIN q : q[l].Phase = SODAW_READ_COMPLETE =>
    LET o == q[l].Opnum IN
      /\ AtMostOne(q, Ends(o))
      /\ o \in registered \/ \E k \in DOMAIN q : k < l /\ q[k] \in Asks(o)

\* A server that stopped may have taken GET_DATA without registering the read.
FoundBy(s, r) == IF Running(s) THEN Registered(s, r) ELSE Nat

\* A reader that waits for data is registered, or will be.
AwaitInv(r, s) ==
  r \in busy /\ Running(r) /\ Phase[r] = SODAW_GET_DATA =>
    \/ Opnum[r] \in FoundBy(s, r)
    \/ \E m \in Messages(requests[r][incarnation[r]][s]) : m \in Asks(Opnum[r])

\* A registration is of a read in progress, or its READ_COMPLETE is on the way.
EntryOK(r, s, x) ==
  /\ ~ x.outdated
  /\ x.opnum <= Opnum[r]
  /\ r \in busy /\ x.opnum = Opnum[r] => Phase[r] = SODAW_GET_DATA
  /\ \/ x.opnum \in Underway(r, x.zmq_identity)
     \/ \E m \in Messages(requests[r][x.zmq_identity][s]) : m \in Ends(x.opnum)

RegInvOf(c) ==
  /\ SocketInv(c)
  /\ \A s \in Servers :
       /\ \A i \in Incarnations :
            /\ AskOrder(requests[c][i][s], Registered(s, c), Underway(c, i))
            /\ EndOrder(requests[c][i][s], FoundBy(s, c))
       /\ AwaitInv(c, s)
       /\ \A x \in readsInProgress[s] : x.reader_name = c => EntryOK(c, s, x)
RegInv == \A c \in Clients : RegInvOf(c)

RInv == TypeOK /\ ChannelInv /\ RegInv
=============================================================================
