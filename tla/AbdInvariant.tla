---------------------------- MODULE AbdInvariant ----------------------------
(***************************************************************************)
(* The inductive invariant behind P1, P2, P3, CompletedIsStored and        *)
(* OneReplyPerServer of Abd, and behind its refinement of TaggedRegister;  *)
(* AbdProofs proves it.                                                    *)
(***************************************************************************)
EXTENDS Abd, Channels

\* The messages, requests or replies, of the phase client c is in.
Current(c) == {m \in Message : Busy(c) /\ isMessageUseful(c, m)}

Majorities(o) == {Q \in SUBSET Servers_names[o] : Cardinality(Q) >= quorum_size(o)}

Stored(o, s) == tagCodedElement_var[o][s].Tag_var

\* The pairs of Register!Written(o), in the variables of Abd.
IsWritten(o, tv) ==
  \/ tv = InitialTagValue
  \/ \E e \in log[o] : e.client \in Writers /\ e.TagValue_var = tv
  \/ \E w \in Writers : Objname[w] = o /\ Phase[w] = ABD_PUT_DATA /\ TagValue_var[w] = tv

-----------------------------------------------------------------------------
(* Channels *)

\* No message is newer than the operation its client is in, a put message
\* appears only once the client puts, and only the object's servers are spoken
\* to.
NotFromTheFuture(c, s, m) ==
  /\ m.Opnum <= OpnumTable[c][m.Objname]
  /\ s \in Servers_names[m.Objname]
  /\ Busy(c) /\ m.Objname = Objname[c] /\ m.Opnum = Opnum(c) /\ m.Phase = ABD_PUT_DATA
       => Phase[c] = ABD_PUT_DATA
  /\ m.TagValue_var.Tag_var \in Tag

InOrder(c) ==
  \A s \in Servers :
    /\ \A i \in Incarnations : \A m \in Messages(requests[c][i][s]) :
         NotFromTheFuture(c, s, m)
    /\ \A m \in Messages(replies[c][s]) : NotFromTheFuture(c, s, m)

\* A current message exists at most once on the way to a server or on the way
\* back, and no more once it was counted.
OneCurrent(c) ==
  \A s \in Servers :
    /\ AtMostOne(replies[c][s], Current(c))
    /\ Messages(replies[c][s]) \cap Current(c) # {} => s \notin responders[c]
    /\ \A i \in Incarnations :
         /\ AtMostOne(requests[c][i][s], Current(c))
         /\ Messages(requests[c][i][s]) \cap Current(c) # {} =>
              /\ i = incarnation[c] /\ s \notin responders[c]
              /\ Messages(replies[c][s]) \cap Current(c) = {}

Counted(c) ==
  Busy(c) =>
    /\ responders[c] \subseteq Servers_names[Objname[c]]
    /\ num_responses[c] = Cardinality(responders[c])
    /\ num_responses[c] <= quorum_size(Objname[c])

ChannelInvOf(c) == InOrder(c) /\ OneCurrent(c) /\ Counted(c)
ChannelInv == \A c \in Clients : ChannelInvOf(c)

-----------------------------------------------------------------------------
(* Values *)

\* A client is in a phase of its own kind of operation; a query starts from the
\* lowest pair; a pair is put under a proper tag.
PhaseOfKind(c) ==
  Busy(c) =>
    /\ c \in Writers => Phase[c] # ABD_GET_DATA
    /\ c \in Readers => Phase[c] # ABD_GET_TAG
    /\ Phase[c] = ABD_PUT_DATA => TagValue_var[c].Tag_var \in Tag
    /\ Phase[c] # ABD_PUT_DATA =>
         IF responders[c] = {} THEN TagValue_var[c] = LowestTagValue
                               ELSE TagValue_var[c].Tag_var \in Tag

\* Pairs that travel with their value, and the pair of a reader, were written.
PairsTravelWritten(c) ==
  /\ \A s \in Servers :
       /\ \A i \in Incarnations : \A m \in Messages(requests[c][i][s]) :
            m.Phase = ABD_PUT_DATA => IsWritten(m.Objname, m.TagValue_var)
       /\ \A m \in Messages(replies[c][s]) :
            m.Phase = ABD_GET_DATA => IsWritten(m.Objname, m.TagValue_var)
  /\ c \in Readers /\ Busy(c) /\ (Phase[c] = ABD_PUT_DATA \/ responders[c] # {})
       => IsWritten(Objname[c], TagValue_var[c])

\* A pair is put under a name of its writer, above the floor of the write.
WriterTag(c) ==
  c \in Writers /\ Busy(c) /\ Phase[c] = ABD_PUT_DATA =>
    /\ isGreaterTag(TagValue_var[c].Tag_var, floor[c])
    /\ \E i \in Incarnations : TagValue_var[c].Tag_var.Client_id = NameTag[c][i]

ServerValues ==
  \A o \in Objects, s \in Servers :
    Stored(o, s) \in Tag /\ IsWritten(o, tagCodedElement_var[o][s])

LogOf(o, e) ==
  /\ IsWritten(o, e.TagValue_var)
  /\ e.client \in Writers =>
       \E i \in Incarnations : e.TagValue_var.Tag_var.Client_id = NameTag[e.client][i]
  /\ AtLeast(completed[o], e.TagValue_var.Tag_var)
  /\ Objname[e.client] = o => AtLeast(floor[e.client], e.TagValue_var.Tag_var)
  /\ AtLeast(e.TagValue_var.Tag_var, e.floor)

\* The log: pairs that were written, below what has ended and below what the
\* same client is doing now; no two writes with one tag.
LogInv ==
  \A o \in Objects :
    /\ \A e \in log[o] : LogOf(o, e)
    /\ \A e, f \in log[o] :
         /\ e.client \in Writers /\ f.client \in Writers
         /\ e.TagValue_var.Tag_var = f.TagValue_var.Tag_var
         => e = f

ValueInvOf(c) == PhaseOfKind(c) /\ PairsTravelWritten(c) /\ WriterTag(c)
ValueInv == (\A c \in Clients : ValueInvOf(c)) /\ ServerValues /\ LogInv

-----------------------------------------------------------------------------
(* Order *)

\* A majority holds the tag of every operation that ended.
CompletedHeld ==
  \A o \in Objects : \E Q \in Majorities(o) : \A s \in Q :
    AtLeast(Stored(o, s), completed[o])

\* A majority holds the floor of an operation in its query, and whatever it has
\* answered to that query is as large.
FloorAnswered(c, s) ==
  /\ AtLeast(Stored(Objname[c], s), floor[c])
  /\ \A m \in Messages(replies[c][s]) \cap Current(c) :
       AtLeast(m.TagValue_var.Tag_var, floor[c])
  /\ s \in responders[c] => AtLeast(TagValue_var[c].Tag_var, floor[c])

\* A server holds at least the tag of each answer it gave to a query in
\* progress; while all answers agree that is the tag of the client.
AnswerStored(c, s) ==
  /\ \A m \in Messages(replies[c][s]) \cap Current(c) :
       AtLeast(Stored(Objname[c], s), m.TagValue_var.Tag_var)
  /\ s \in responders[c] /\ IsOnePhase[c] =>
       AtLeast(Stored(Objname[c], s), TagValue_var[c].Tag_var)

QueryInv(c) ==
  Busy(c) /\ Phase[c] # ABD_PUT_DATA =>
    /\ \E Q \in Majorities(Objname[c]) : \A s \in Q : FloorAnswered(c, s)
    /\ \A s \in Servers : AnswerStored(c, s)

\* The requests of a put carry its pair, and a server that acknowledged holds
\* its tag.
PutInv(c) ==
  Busy(c) /\ Phase[c] = ABD_PUT_DATA =>
    /\ AtLeast(TagValue_var[c].Tag_var, floor[c])
    /\ \A s \in Servers :
         /\ \A i \in Incarnations : \A m \in Messages(requests[c][i][s]) \cap Current(c) :
              m.TagValue_var = TagValue_var[c]
         /\ s \in responders[c] \/ Messages(replies[c][s]) \cap Current(c) # {} =>
              AtLeast(Stored(Objname[c], s), TagValue_var[c].Tag_var)

OrderInvOf(c) == QueryInv(c) /\ PutInv(c)
OrderInv == (\A c \in Clients : OrderInvOf(c)) /\ CompletedHeld

IInv == TypeOK /\ ChannelInv /\ ValueInv /\ OrderInv
=============================================================================
