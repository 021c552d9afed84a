--------------------------- MODULE SodawRefinement ---------------------------
(***************************************************************************)
(* What was completed stays stored in Sodaw, at servers of which those     *)
(* with a failing disk may hold less (IInv); with no such disk no read is  *)
(* sent an older element than it asked for.                                *)
(*                                                                         *)
(* SODAW, and SODAW_FAST in memory, then implement the tagged register if  *)
(* objects are also written before they are read.  The values that travel, *)
(* are stored or are decoded were written (VInv); the steps of the         *)
(* register are the starts, choices and ends of operations.                *)
(***************************************************************************)
EXTENDS SodawProofs

-----------------------------------------------------------------------------
(* Servers only move forward *)

\* After the step server s holds tag t or a larger one, unless a write of its file
\* failed.
WillHold(s, t) == s \in diskErrors' \/ AtLeast(Stored(s)', t)

\* Every server holds the tag it held, or a larger one, unless a write of its file
\* failed.
Forward ==
  /\ diskErrors \subseteq diskErrors'
  /\ \A s \in Servers : Stored(s)' \in Tag /\ WillHold(s, Stored(s))

LEMMA StoredTypes ==
  ASSUME TypeOK, ServerInv
  PROVE  \A s \in Servers : /\ Stored(s) \in Tag /\ Stored(s) \in AnyTag
                            /\ AtLeast(Stored(s), InitialTag)
BY DataTypes DEF ServerInv, ServerInvOf

LEMMA ForwardKeeps ==
  ASSUME TypeOK, ServerInv, Forward, NEW s \in Servers, NEW t \in AnyTag, Holds(s, t)
  PROVE  WillHold(s, t) /\ Holds(s, t)'
<1>1. Stored(s) \in AnyTag /\ Stored(s)' \in AnyTag /\ WillHold(s, Stored(s))
  BY StoredTypes, DataTypes DEF Forward
<1>2. CASE s \in diskErrors'
  BY <1>2 DEF WillHold, Holds
<1>3. CASE s \notin diskErrors'
  <2>1. AtLeast(Stored(s), t) /\ AtLeast(Stored(s)', Stored(s))
    BY <1>1, <1>3 DEF Forward, Holds, WillHold
  <2>2. AtLeast(Stored(s)', t)
    BY <1>1, <2>1, TagTransitive
  <2> QED
    BY <2>2 DEF WillHold, Holds
<1> QED
  BY <1>2, <1>3

LEMMA OwnKeeps ==
  ASSUME TypeOK, ServerInv, Forward, NEW s \in Servers, NEW tv \in TagValue, Own(s, tv)
  PROVE  Own(s, tv)'
<1>1. tv.Tag_var \in AnyTag
  BY DataTypes
<1> QED
  BY <1>1, ForwardKeeps DEF Own

LEMMA HoldersKeep ==
  ASSUME TypeOK, ServerInv, Forward, NEW t \in AnyTag
  PROVE  /\ Holders(t) \subseteq Holders(t)'
         /\ Cardinality(Holders(t)) <= Cardinality(Holders(t)')
<1>1. Holders(t) \subseteq Holders(t)'
  BY ForwardKeeps DEF Holders
<1>2. Holders(t)' \subseteq Servers
  BY DEF Holders
<1>3. IsFiniteSet(Holders(t)')
  BY <1>2, ServersAssumption, FS_Subset
<1> QED
  BY <1>1, <1>3, FS_Subset

\* Without a step of a server nothing moves.
LEMMA StillForward ==
  ASSUME TypeOK, ServerInv, UNCHANGED serverVars
  PROVE  ServerInv' /\ Forward
<1>1. diskErrors' = diskErrors /\ \A s \in Servers : Stored(s)' = Stored(s)
  BY DEF Stored, serverVars
<1>2. Forward
  BY <1>1, StoredTypes, TagTotal DEF Forward, WillHold
<1>3. ServerInv'
  BY DEF ServerInv, ServerInvOf, Stored, serverVars
<1> QED
  BY <1>2, <1>3

\* A message to a server carries a tag that was chosen.
LEMMA RequestTags ==
  ASSUME TypeOK, MessagesInv, NEW c \in Clients, NEW i \in Incarnations, NEW s \in Servers,
         NEW m \in Messages(requests[c][i][s])
  PROVE  /\ m \in Message /\ m.TagValue_var \in TagValue
         /\ m.TagValue_var.Tag_var \in Tag /\ m.TagValue_var.Tag_var \in AnyTag
         /\ m.Phase = SODAW_PUT_DATA => m.TagValue_var.CodeIndex = s
<1>1. requests[c][i][s] \in Seq(Message)
  BY DEF TypeOK
<1>2. m \in Message
  BY <1>1 DEF Messages
<1>3. m.TagValue_var.Tag_var \in Tag
  BY DEF MessagesInv
<1>4. m.Phase = SODAW_PUT_DATA => m.TagValue_var.CodeIndex = s
  BY DEF MessagesInv
<1> QED
  BY <1>2, <1>3, <1>4, DataTypes DEF Message

LEMMA ReplyTags ==
  ASSUME TypeOK, NEW c \in Clients, NEW s \in Servers, NEW m \in Messages(replies[c][s])
  PROVE  /\ m \in Message /\ m.TagValue_var \in TagValue /\ m.TagValue_var.Tag_var \in AnyTag
<1>1. replies[c][s] \in Seq(Message)
  BY DEF TypeOK
<1>2. m \in Message
  BY <1>1 DEF Messages
<1> QED
  BY <1>2, DataTypes DEF Message

LEMMA TakenMessage ==
  ASSUME TypeOK, NEW s \in Servers, NEW c \in Clients, NEW i \in Incarnations,
         ServerStep(s, c, i)
  PROVE  Head(requests[c][i][s]) \in Messages(requests[c][i][s])
<1>1. requests[c][i][s] \in Seq(Message) /\ requests[c][i][s] # <<>>
  BY TakeEffect
<1> QED
  BY <1>1, ReceiveMessages

\* What a server stores when it handles a message.
LEMMA ServerStores ==
  ASSUME TypeOK, NEW s \in Servers, NEW c \in Clients, NEW i \in Incarnations,
         ServerStep(s, c, i)
  PROVE  LET m == Head(requests[c][i][s]) IN
         /\ \A t \in Servers : t # s => /\ tagCodedElement_var'[t] = tagCodedElement_var[t]
                                        /\ disk'[t] = disk[t]
         /\ \/ tagCodedElement_var'[s] = tagCodedElement_var[s] /\ disk'[s] = disk[s]
            \/ /\ UseDisk /\ disk[s].Tag_var # LowestTag /\ disk'[s] = disk[s]
               /\ tagCodedElement_var'[s] = disk[s]
            \/ /\ m.Phase = SODAW_PUT_DATA /\ Supersedes(m.TagValue_var.Tag_var, s)
               /\ IF UseDisk
                    THEN /\ tagCodedElement_var'[s] = TagOnly(m.TagValue_var.Tag_var)
                         /\ \/ disk'[s] = m.TagValue_var
                            \/ s \in diskErrors' /\ disk'[s] = disk[s]
                    ELSE tagCodedElement_var'[s] = m.TagValue_var /\ disk'[s] = disk[s]
<1> DEFINE m == Head(requests[c][i][s])
           t0 == m.TagValue_var.Tag_var
<1>1. \/ getTagResp(s, c, i, m) \/ getDataResp(s, c, i, m)
      \/ readCompleteResp(s, c, i, m) \/ putDataResp(s, c, i, m)
  BY DEF ServerStep
<1> HIDE DEF m
<1>2. /\ tagCodedElement_var \in [Servers -> TagValue] /\ disk \in [Servers -> TagValue]
  BY DEF TypeOK
<1>3. \/ UNCHANGED <<tagCodedElement_var, disk>>
      \/ /\ UseDisk /\ disk[s].Tag_var # LowestTag /\ disk' = disk
         /\ tagCodedElement_var' = [tagCodedElement_var EXCEPT ![s] = disk[s]]
      \/ /\ m.Phase = SODAW_PUT_DATA /\ Supersedes(t0, s)
         /\ IF UseDisk THEN /\ tagCodedElement_var' = [tagCodedElement_var EXCEPT ![s] = TagOnly(t0)]
                            /\ \/ disk' = [disk EXCEPT ![s] = m.TagValue_var]
                               \/ s \in diskErrors' /\ disk' = disk
            ELSE /\ tagCodedElement_var' = [tagCodedElement_var EXCEPT ![s] = m.TagValue_var]
                 /\ disk' = disk
  <2>1. CASE getTagResp(s, c, i, m) \/ readCompleteResp(s, c, i, m)
    BY <2>1 DEF getTagResp, readCompleteResp, serverVars
  <2>2. CASE getDataResp(s, c, i, m)
    <3>1. /\ disk' = disk
          /\ \/ UNCHANGED tagCodedElement_var
             \/ /\ ~ (UseDisk /\ disk[s].Tag_var = LowestTag)
                /\ tagCodedElement_var' = [tagCodedElement_var EXCEPT ![s] =
                     IF UseDisk THEN disk[s] ELSE tagCodedElement_var[s]]
      BY <2>2 DEF getDataResp
    <3>2. [tagCodedElement_var EXCEPT ![s] = tagCodedElement_var[s]] = tagCodedElement_var
      BY <1>2
    <3> QED
      BY <3>1, <3>2
  <2>3. CASE putDataResp(s, c, i, m)
    <3> DEFINE stores == Supersedes(t0, s)
    <3>1. /\ m.Phase = SODAW_PUT_DATA
          /\ tagCodedElement_var' = [tagCodedElement_var EXCEPT ![s] =
               IF ~ stores THEN tagCodedElement_var[s]
               ELSE IF UseDisk THEN TagOnly(t0) ELSE m.TagValue_var]
          /\ \/ disk' = [disk EXCEPT ![s] = IF stores /\ UseDisk THEN m.TagValue_var ELSE disk[s]]
             \/ stores /\ UseDisk /\ s \in diskErrors' /\ disk' = disk
      BY <1>2, <2>3 DEF putDataResp
    <3>2. /\ [tagCodedElement_var EXCEPT ![s] = tagCodedElement_var[s]] = tagCodedElement_var
          /\ [disk EXCEPT ![s] = disk[s]] = disk
      BY <1>2
    <3> HIDE DEF stores, t0
    <3> QED
      BY <3>1, <3>2 DEF stores, t0
  <2> QED
    BY <1>1, <2>1, <2>2, <2>3
<1> HIDE DEF t0
<1>4. /\ \A t \in Servers : t # s => /\ tagCodedElement_var'[t] = tagCodedElement_var[t]
                                     /\ disk'[t] = disk[t]
      /\ \/ tagCodedElement_var'[s] = tagCodedElement_var[s] /\ disk'[s] = disk[s]
         \/ /\ UseDisk /\ disk[s].Tag_var # LowestTag /\ disk'[s] = disk[s]
            /\ tagCodedElement_var'[s] = disk[s]
         \/ /\ m.Phase = SODAW_PUT_DATA /\ Supersedes(t0, s)
            /\ IF UseDisk THEN /\ tagCodedElement_var'[s] = TagOnly(t0)
                               /\ \/ disk'[s] = m.TagValue_var
                                  \/ s \in diskErrors' /\ disk'[s] = disk[s]
               ELSE tagCodedElement_var'[s] = m.TagValue_var /\ disk'[s] = disk[s]
  BY <1>2, <1>3
<1> QED
  BY <1>4 DEF t0, m

\* Memory, and file, go forward together, except where a write of the file failed.
LEMMA ServerMoves ==
  ASSUME TypeOK, ServerInv, MessagesInv, NEW s \in Servers, NEW c \in Clients,
         NEW i \in Incarnations, ServerStep(s, c, i)
  PROVE  /\ ServerInv' /\ Forward
         /\ \A t \in Servers : t # s => Stored(t)' = Stored(t)
<1> DEFINE m == Head(requests[c][i][s])
           t0 == m.TagValue_var.Tag_var
<1>1. m \in Messages(requests[c][i][s])
  BY TakenMessage
<1>2. /\ m \in Message /\ m.TagValue_var \in TagValue /\ t0 \in Tag /\ t0 \in AnyTag
      /\ m.Phase = SODAW_PUT_DATA => m.TagValue_var.CodeIndex = s
  BY <1>1, RequestTags
<1>3. Stored(s) \in Tag /\ ServerInvOf(s) /\ TagOnly(t0).Tag_var = t0
  BY StoredTypes, DataTypes, <1>2 DEF ServerInv
<1>4. /\ \A t \in Servers : t # s => /\ tagCodedElement_var'[t] = tagCodedElement_var[t]
                                     /\ disk'[t] = disk[t]
      /\ \/ tagCodedElement_var'[s] = tagCodedElement_var[s] /\ disk'[s] = disk[s]
         \/ /\ UseDisk /\ disk[s].Tag_var # LowestTag /\ disk'[s] = disk[s]
            /\ tagCodedElement_var'[s] = disk[s]
         \/ /\ m.Phase = SODAW_PUT_DATA /\ Supersedes(t0, s)
            /\ IF UseDisk THEN /\ tagCodedElement_var'[s] = TagOnly(t0)
                               /\ \/ disk'[s] = m.TagValue_var
                                  \/ s \in diskErrors' /\ disk'[s] = disk[s]
               ELSE tagCodedElement_var'[s] = m.TagValue_var /\ disk'[s] = disk[s]
  BY ServerStores
<1>9. diskErrors \subseteq diskErrors'
  BY StepHandled DEF Handled
<1> HIDE DEF m
<1>5. \A t \in Servers : t # s => Stored(t)' = Stored(t) /\ (ServerInvOf(t) => ServerInvOf(t)')
  BY <1>4, <1>9 DEF Stored, ServerInvOf
<1>6. ServerInvOf(s)' /\ Stored(s)' \in Tag /\ WillHold(s, Stored(s))
  <2>1. CASE tagCodedElement_var'[s] = tagCodedElement_var[s] /\ disk'[s] = disk[s]
    BY <1>3, <1>9, <2>1, TagTotal, DataTypes DEF Stored, ServerInvOf, WillHold
  <2>2. CASE /\ UseDisk /\ disk[s].Tag_var # LowestTag /\ disk'[s] = disk[s]
             /\ tagCodedElement_var'[s] = disk[s]
    <3>1. /\ disk[s].Tag_var \in Tag /\ AtLeast(disk[s].Tag_var, InitialTag)
          /\ disk[s].CodeIndex = s
          /\ s \in diskErrors \/ disk[s].Tag_var = Stored(s)
      BY <1>3, <2>2 DEF ServerInvOf
    <3>2. Stored(s)' = disk[s].Tag_var /\ disk'[s].Tag_var = Stored(s)'
      BY <2>2 DEF Stored
    <3>3. WillHold(s, Stored(s))
      BY <1>3, <1>9, <3>1, <3>2, TagTotal, DataTypes DEF WillHold
    <3> QED
      BY <2>2, <3>1, <3>2, <3>3 DEF ServerInvOf
  <2>3. CASE /\ m.Phase = SODAW_PUT_DATA /\ Supersedes(t0, s)
             /\ IF UseDisk THEN /\ tagCodedElement_var'[s] = TagOnly(t0)
                                /\ \/ disk'[s] = m.TagValue_var
                                   \/ s \in diskErrors' /\ disk'[s] = disk[s]
                ELSE tagCodedElement_var'[s] = m.TagValue_var /\ disk'[s] = disk[s]
    <3>1. isGreaterTag(t0, Stored(s)) /\ AtLeast(Stored(s), InitialTag)
      BY <1>3, <2>3 DEF Supersedes, Stored, ServerInvOf
    <3>2. AtLeast(t0, Stored(s)) /\ AtLeast(t0, InitialTag)
      BY <1>2, <1>3, <3>1, TagTotal, TagTransitive, DataTypes
    <3>3. Stored(s)' = t0
      BY <1>3, <2>3 DEF Stored
    <3>4. m.TagValue_var.CodeIndex = s
      BY <1>2, <2>3
    <3>5. WillHold(s, Stored(s))
      BY <3>2, <3>3 DEF WillHold
    <3>6. CASE s \in diskErrors' /\ disk'[s] = disk[s] /\ UseDisk
      BY <1>2, <1>3, <3>2, <3>3, <3>5, <3>6 DEF ServerInvOf
    <3>7. CASE ~ (s \in diskErrors' /\ disk'[s] = disk[s] /\ UseDisk)
      BY <1>2, <2>3, <3>2, <3>3, <3>4, <3>5, <3>7 DEF ServerInvOf
    <3> QED
      BY <3>6, <3>7
  <2> QED
    BY <1>4, <2>1, <2>2, <2>3
<1>7. Forward
  BY <1>5, <1>6, <1>9, StoredTypes, TagTotal DEF Forward, WillHold
<1>8. ServerInv'
  BY <1>5, <1>6 DEF ServerInv
<1> QED
  BY <1>5, <1>7, <1>8

-----------------------------------------------------------------------------
(* Clients that do not step *)

LEMMA QueryFrame ==
  ASSUME TypeOK, ServerInv, Forward, NEW d \in Clients, SameClient(d), QueryInv(d),
         \A s \in Servers : replies'[d][s] = replies[d][s]
  PROVE  QueryInv(d)'
<1> SUFFICES ASSUME InQuery(d)
             PROVE  /\ IF responders'[d] = {} THEN TagValue_var'[d].Tag_var = LowestTag
                       ELSE TagValue_var'[d].Tag_var \in Tag
                    /\ diskErrors' = {} => \E Q \in SUBSET Servers :
                         Cardinality(Q) >= majority /\ \A s \in Q : FloorAnswered(d, s)'
                    /\ \A s \in Servers : AnswerStored(d, s)'
  BY DEF QueryInv, InQuery, SameClient
<1>1. IF responders'[d] = {} THEN TagValue_var'[d].Tag_var = LowestTag
      ELSE TagValue_var'[d].Tag_var \in Tag
  BY DEF QueryInv, SameClient
<1>2. floor[d] \in AnyTag /\ TagValue_var[d].Tag_var \in AnyTag
  BY DataTypes DEF TypeOK
<1>3. ASSUME diskErrors' = {}, NEW s \in Servers, FloorAnswered(d, s) PROVE FloorAnswered(d, s)'
  <2>1. AtLeast(Stored(s)', floor[d])
    BY <1>2, <1>3, ForwardKeeps DEF FloorAnswered, Holds, WillHold
  <2> QED
    BY <1>3, <2>1 DEF FloorAnswered, SameClient
<1>4. ASSUME NEW s \in Servers PROVE AnswerStored(d, s)'
  <2>1. AnswerStored(d, s)
    BY DEF QueryInv
  <2>2. ASSUME NEW m \in Messages(replies[d][s])
        PROVE  WillHold(s, m.TagValue_var.Tag_var)
    BY <2>1, ReplyTags, ForwardKeeps DEF AnswerStored
  <2>3. s \in responders[d] /\ IsOnePhase[d] => WillHold(s, TagValue_var[d].Tag_var)
    BY <1>2, <2>1, ForwardKeeps DEF AnswerStored
  <2> QED
    BY <2>2, <2>3 DEF AnswerStored, SameClient, Holds, WillHold
<1>5. ASSUME diskErrors' = {}
      PROVE  \E Q \in SUBSET Servers :
               Cardinality(Q) >= majority /\ \A s \in Q : FloorAnswered(d, s)
  <2>1. diskErrors = {}
    BY <1>5 DEF Forward
  <2> QED
    BY <2>1 DEF QueryInv
<1> QED
  BY <1>1, <1>3, <1>4, <1>5

LEMMA PutFrame ==
  ASSUME TypeOK, ServerInv, Forward, NEW d \in Clients, SameClient(d), PutInv(d),
         RequestsShrink(d), \A s \in Servers : replies'[d][s] = replies[d][s]
  PROVE  PutInv(d)'
<1> SUFFICES ASSUME d \in busy, Phase[d] = SODAW_PUT_DATA
             PROVE  /\ TagValue_var'[d].Tag_var \in Tag
                    /\ \A s \in Servers :
                         /\ \A i \in Incarnations :
                              \A m \in Messages(requests'[d][i][s]) \cap Current(d)' :
                                m.TagValue_var.Tag_var = TagValue_var'[d].Tag_var
                         /\ s \in responders'[d] \/ replies'[d][s] # <<>> =>
                              WillHold(s, TagValue_var'[d].Tag_var)
  BY DEF PutInv, SameClient, Holds, WillHold
<1>1. /\ TagValue_var'[d] = TagValue_var[d] /\ responders'[d] = responders[d]
      /\ TagValue_var[d].Tag_var \in Tag /\ TagValue_var[d].Tag_var \in AnyTag
  BY DataTypes DEF PutInv, SameClient
<1>2. Current(d)' = Current(d)
  BY SameCurrent
<1>3. ASSUME NEW s \in Servers, NEW i \in Incarnations,
             NEW m \in Messages(requests'[d][i][s]) \cap Current(d)'
      PROVE  m.TagValue_var.Tag_var = TagValue_var'[d].Tag_var
  <2>1. m \in Messages(requests[d][i][s]) \cap Current(d)
    BY <1>2 DEF RequestsShrink, Shrinks
  <2> QED
    BY <1>1, <2>1 DEF PutInv
<1>4. ASSUME NEW s \in Servers, s \in responders[d] \/ replies[d][s] # <<>>
      PROVE  WillHold(s, TagValue_var[d].Tag_var)
  BY <1>1, <1>4, ForwardKeeps DEF PutInv
<1> QED
  BY <1>1, <1>3, <1>4

LEMMA DataFrame ==
  ASSUME TypeOK, ServerInv, Forward, NEW d \in Clients, SameClient(d), DataInv(d),
         RequestsShrink(d), \A s \in Servers : replies'[d][s] = replies[d][s]
  PROVE  DataInv(d)'
<1> SUFFICES ASSUME d \in busy, Phase[d] = SODAW_GET_DATA
             PROVE  /\ TagValue_var'[d].Tag_var \in Tag
                    /\ \A s \in Servers :
                         /\ \A i \in Incarnations :
                              \A m \in Messages(requests'[d][i][s]) \cap Current(d)' :
                                m.TagValue_var.Tag_var = TagValue_var'[d].Tag_var
                         /\ \A m \in Messages(replies'[d][s]) :
                              /\ \/ s \in diskErrors'
                                 \/ AtLeast(m.TagValue_var.Tag_var, TagValue_var'[d].Tag_var)
                              /\ Own(s, m.TagValue_var)'
                    /\ \A e \in rx_state'[d] : e.Tag_var \in Tag /\ Own(e.CodeIndex, e)'
                    /\ \A e, f \in rx_state'[d] :
                         e.Tag_var = f.Tag_var /\ e.CodeIndex = f.CodeIndex => e = f
  BY DEF DataInv, SameClient
<1>1. /\ TagValue_var'[d] = TagValue_var[d] /\ rx_state'[d] = rx_state[d]
      /\ TagValue_var[d].Tag_var \in Tag
      /\ \A e, f \in rx_state[d] :
           e.Tag_var = f.Tag_var /\ e.CodeIndex = f.CodeIndex => e = f
  BY DEF DataInv, SameClient
<1>2. Current(d)' = Current(d)
  BY SameCurrent
<1>3. ASSUME NEW s \in Servers, NEW i \in Incarnations,
             NEW m \in Messages(requests'[d][i][s]) \cap Current(d)'
      PROVE  m.TagValue_var.Tag_var = TagValue_var'[d].Tag_var
  <2>1. m \in Messages(requests[d][i][s]) \cap Current(d)
    BY <1>2 DEF RequestsShrink, Shrinks
  <2> QED
    BY <1>1, <2>1 DEF DataInv
<1>4. ASSUME NEW s \in Servers, NEW m \in Messages(replies[d][s])
      PROVE  /\ s \in diskErrors' \/ AtLeast(m.TagValue_var.Tag_var, TagValue_var[d].Tag_var)
             /\ Own(s, m.TagValue_var)'
  <2>1. /\ s \in diskErrors' \/ AtLeast(m.TagValue_var.Tag_var, TagValue_var[d].Tag_var)
        /\ Own(s, m.TagValue_var)
    BY DEF DataInv, Forward
  <2>2. m.TagValue_var \in TagValue
    BY ReplyTags
  <2> DEFINE tv == m.TagValue_var
  <2> HIDE DEF tv
  <2>3. Own(s, tv) => Own(s, tv)'
    BY <2>2, OwnKeeps DEF tv
  <2> QED
    BY <2>1, <2>3 DEF tv
<1>5. ASSUME NEW e \in rx_state[d] PROVE e.Tag_var \in Tag /\ Own(e.CodeIndex, e)'
  <2>1. e \in TagValue /\ e.CodeIndex \in Servers
    BY DataTypes DEF TypeOK
  <2>2. e.Tag_var \in Tag /\ Own(e.CodeIndex, e)
    BY DEF DataInv
  <2> QED
    BY <2>1, <2>2, OwnKeeps
<1> QED
  BY <1>1, <1>3, <1>4, <1>5

LEMMA OrderFrame ==
  ASSUME TypeOK, ServerInv, Forward, NEW d \in Clients, SameClient(d), OrderInvOf(d),
         RequestsShrink(d), \A s \in Servers : replies'[d][s] = replies[d][s]
  PROVE  OrderInvOf(d)'
BY QueryFrame, PutFrame, DataFrame DEF OrderInvOf

LEMMA OrderIdle ==
  ASSUME TypeOK, ServerInv, Forward, NEW d \in Clients, Idle(d), OrderInvOf(d)
  PROVE  OrderInvOf(d)'
<1>1. SameClient(d) /\ RequestsShrink(d) /\ \A s \in Servers : replies'[d][s] = replies[d][s]
  BY SameShrinks DEF Idle, RequestsShrink
<1> QED
  BY <1>1, OrderFrame

-----------------------------------------------------------------------------
(* What a server answers *)

\* A reply of server s that client d can use, by the phase of d: the tag that s
\* holds, an element it holds and d asked for, or an acknowledgement of what it
\* holds now.
Answer(d, s, a) ==
  /\ a \in Message /\ a \in Current(d)
  /\ a.TagValue_var.Tag_var \in Tag
  /\ replies'[d][s] = Append(replies[d][s], a)
  /\ \/ /\ InQuery(d) /\ a.TagValue_var.Tag_var = Stored(s)
        /\ Stored(s)' = Stored(s) /\ diskErrors' = diskErrors
        /\ Phase[d] = SODAW_FAST_GET_TAG_DATA => a.TagValue_var = tagCodedElement_var[s]
     \/ /\ Phase[d] = SODAW_GET_DATA
        /\ s \in diskErrors' \/ AtLeast(a.TagValue_var.Tag_var, TagValue_var[d].Tag_var)
        /\ Own(s, a.TagValue_var)'
     \/ Phase[d] = SODAW_PUT_DATA /\ WillHold(s, TagValue_var[d].Tag_var)

LEMMA QueryAnswers ==
  ASSUME TypeOK, ServerInv, NEW s \in Servers, NEW c \in Clients, NEW i \in Incarnations,
         NEW m \in Message, getTagResp(s, c, i, m), NEW d \in Clients
  PROVE  replies'[d][s] = replies[d][s] \/ \E a \in Message : Answer(d, s, a)
<1> DEFINE tv == IF m.Phase = SODAW_GET_TAG THEN TagOnly(tagCodedElement_var[s].Tag_var)
                 ELSE tagCodedElement_var[s]
           a == [m EXCEPT !.TagValue_var = tv]
<1>1. tagCodedElement_var[s] \in TagValue
  BY DEF TypeOK
<1>2. /\ tv \in TagValue /\ tv.Tag_var = Stored(s)
      /\ m.Phase # SODAW_GET_TAG => tv = tagCodedElement_var[s]
  BY <1>1, DataTypes DEF Stored
<1>3. Reply(c, i, s, a) /\ m.Phase \in {SODAW_GET_TAG, SODAW_FAST_GET_TAG_DATA}
  BY DEF getTagResp
<1>4. Stored(s)' = Stored(s) /\ diskErrors' = diskErrors /\ Stored(s) \in Tag
  BY StoredTypes DEF getTagResp, serverVars, Stored
<1> HIDE DEF tv
<1>5. replies'[d][s] = replies[d][s]
      \/ /\ d = c /\ i = incarnation[c] /\ m \in Current(c)
         /\ replies'[d][s] = Append(replies[d][s], [m EXCEPT !.TagValue_var = tv])
  BY <1>2, <1>3, ReplyEffect
<1>6. a \in Message /\ a.TagValue_var = tv /\ a.Opnum = m.Opnum /\ a.Phase = m.Phase
  BY <1>2 DEF Message
<1>7. CASE /\ d = c /\ m \in Current(c) /\ replies'[d][s] = Append(replies[d][s], a)
  <2>1. a \in Current(d) /\ InQuery(d) /\ Phase[d] = m.Phase
    BY <1>3, <1>6, <1>7 DEF Current, InQuery
  <2>2. Phase[d] = SODAW_FAST_GET_TAG_DATA => m.Phase # SODAW_GET_TAG
    BY <2>1 DEF SODAW_GET_TAG, SODAW_FAST_GET_TAG_DATA
  <2> QED
    BY <1>2, <1>4, <1>6, <1>7, <2>1, <2>2 DEF Answer
<1> QED
  BY <1>5, <1>7

LEMMA DataAnswers ==
  ASSUME TypeOK, ServerInv, ServerInv', NEW s \in Servers, NEW c \in Clients,
         NEW i \in Incarnations, NEW m \in Message, getDataResp(s, c, i, m), DataInv(c),
         m \in Messages(requests[c][i][s]), NEW d \in Clients
  PROVE  replies'[d][s] = replies[d][s] \/ \E a \in Message : Answer(d, s, a)
<1>1. CASE doesReadExist(s, c, m.Opnum) \/ ~ AnswersNow(s, m.TagValue_var.Tag_var)
           \/ (UseDisk /\ disk[s].Tag_var = LowestTag)
  BY <1>1 DEF getDataResp
<1>2. CASE /\ ~ doesReadExist(s, c, m.Opnum) /\ AnswersNow(s, m.TagValue_var.Tag_var)
           /\ ~ (UseDisk /\ disk[s].Tag_var = LowestTag)
  <2>0. PICK tv \in TagValue : tv = IF UseDisk THEN disk[s] ELSE tagCodedElement_var[s]
    BY DEF TypeOK
  <2> DEFINE a == [m EXCEPT !.TagValue_var = tv]
             asked == m.TagValue_var.Tag_var
  <2>1. /\ tagCodedElement_var' = [tagCodedElement_var EXCEPT ![s] = tv]
        /\ Reply(c, i, s, [m EXCEPT !.TagValue_var = tagCodedElement_var'[s]])
        /\ m.Phase = SODAW_GET_DATA /\ disk' = disk /\ diskErrors' = diskErrors
    BY <1>2, <2>0 DEF getDataResp
  <2>2. tv \in TagValue /\ asked \in AnyTag
    BY DataTypes DEF TypeOK, Message
  <2>3. ServerInvOf(s) /\ Stored(s) \in Tag /\ Stored(s) \in AnyTag
    BY StoredTypes DEF ServerInv
  <2>4. /\ s \in diskErrors \/ tv.Tag_var = Stored(s)
        /\ tv.Tag_var \in Tag /\ tv.Tag_var \in AnyTag
    BY <1>2, <2>0, <2>3, DataTypes DEF ServerInvOf, Stored
  <2>5. ~ IsSmallerThan(Stored(s), asked)
    BY <1>2 DEF AnswersNow, Stored
  <2>6. AtLeast(Stored(s), asked)
    BY <2>2, <2>3, <2>5, TagComparisonsAgree DEF AtLeast
  <2>7. tagCodedElement_var'[s] = tv /\ Stored(s)' = tv.Tag_var
    BY <2>1, <2>2 DEF TypeOK, Stored
  <2>8. Own(s, tv)'
    <3>1. ServerInvOf(s)' /\ tv.Tag_var \in AnyTag /\ Holds(s, tv.Tag_var)'
      BY <2>3, <2>4, <2>7, TagTotal DEF ServerInv, Holds
    <3>2. tv.Tag_var = InitialTag \/ tv.CodeIndex = s
      <4>1. CASE UseDisk
        BY <1>2, <2>0, <2>3, <4>1 DEF ServerInvOf
      <4>2. CASE ~ UseDisk
        BY <2>0, <2>3, <4>2 DEF ServerInvOf, Stored
      <4> QED
        BY <4>1, <4>2
    <3> QED
      BY <3>1, <3>2 DEF Own
  <2>9. replies'[d][s] = replies[d][s]
        \/ /\ d = c /\ i = incarnation[c] /\ m \in Current(c)
           /\ replies'[d][s] = Append(replies[d][s], [m EXCEPT !.TagValue_var = tv])
    <3>1. Reply(c, i, s, [m EXCEPT !.TagValue_var = tv])
      BY <2>1, <2>7
    <3> QED
      BY <2>2, <3>1, ReplyEffect
  <2>10. a \in Message /\ a.TagValue_var = tv /\ a.Opnum = m.Opnum /\ a.Phase = m.Phase
    BY <2>2 DEF Message
  <2>11. CASE /\ d = c /\ m \in Current(c) /\ replies'[d][s] = Append(replies[d][s], a)
    <3>1. a \in Current(d) /\ Phase[d] = SODAW_GET_DATA /\ d \in busy
      BY <2>1, <2>10, <2>11 DEF Current
    <3>2. asked = TagValue_var[d].Tag_var
      BY <2>11, <3>1 DEF DataInv
    <3>3. s \in diskErrors' \/ AtLeast(tv.Tag_var, asked)
      BY <2>1, <2>4, <2>6
    <3> QED
      BY <2>4, <2>8, <2>10, <2>11, <3>1, <3>2, <3>3 DEF Answer
  <2> QED
    BY <2>9, <2>11
<1> QED
  BY <1>1, <1>2

\* After a put the server holds its tag or a larger one.
LEMMA PutStores ==
  ASSUME TypeOK, ServerInv, NEW s \in Servers, NEW c \in Clients, NEW i \in Incarnations,
         NEW m \in Message, putDataResp(s, c, i, m)
  PROVE  AtLeast(Stored(s)', m.TagValue_var.Tag_var)
<1> DEFINE t == m.TagValue_var.Tag_var
           stores == Supersedes(t, s)
           tv == IF ~ stores THEN tagCodedElement_var[s]
                 ELSE IF UseDisk THEN TagOnly(t) ELSE m.TagValue_var
<1>1. t \in AnyTag /\ Stored(s) \in AnyTag /\ TagOnly(t).Tag_var = t
  BY StoredTypes, DataTypes DEF Message
<1>2. tagCodedElement_var' = [tagCodedElement_var EXCEPT ![s] = tv]
  BY DEF putDataResp, TypeOK
<1>3. IF stores THEN tv.Tag_var = t ELSE tv.Tag_var = Stored(s)
  BY <1>1 DEF Stored
<1>4. IF stores THEN TRUE ELSE AtLeast(Stored(s), t)
  BY DEF Supersedes, AtLeast, Stored
<1> HIDE DEF stores, tv, t
<1>5. Stored(s)' = tv.Tag_var
  BY <1>2 DEF Stored, TypeOK
<1> QED
  BY <1>1, <1>3, <1>4, <1>5, TagTotal DEF t

LEMMA PutAnswers ==
  ASSUME TypeOK, ServerInv, NEW s \in Servers, NEW c \in Clients, NEW i \in Incarnations,
         NEW m \in Message, putDataResp(s, c, i, m), PutInv(c), RegistrationInv,
         m \in Messages(requests[c][i][s]), m.TagValue_var.CodeIndex = s,
         m.TagValue_var.Tag_var \in Tag, NEW d \in Clients
  PROVE  replies'[d][s] = replies[d][s] \/ \E a \in Message : Answer(d, s, a)
<1> DEFINE t == m.TagValue_var.Tag_var
<1>1. AtLeast(Stored(s)', t)
  BY PutStores
<1>2. t \in AnyTag /\ m.TagValue_var \in TagValue
  BY DataTypes DEF Message
<1>3. CASE /\ isMessageUseful(d, RelayOf(d, m))
           /\ replies'[d][s] = Append(replies[d][s], RelayOf(d, m))
           /\ \E x \in readsInProgress[s] :
                SameRead(x, d, Opnum[d]) /\ IsServed(x, t)
  <2>0. PICK a : a = RelayOf(d, m)
    OBVIOUS
  <2>1. a \in Message /\ a.TagValue_var = m.TagValue_var /\ a \in Current(d) /\ d \in busy
    <3>1. Opnum[d] \in Nat /\ SODAW_GET_DATA \in Phases
      BY DataTypes DEF TypeOK
    <3>2. a \in Message /\ a.TagValue_var = m.TagValue_var
      BY <2>0, <3>1 DEF Message, RelayOf
    <3> QED
      BY <1>3, <2>0, <3>2 DEF isMessageUseful, Current
  <2>2. PICK x \in readsInProgress[s] : SameRead(x, d, Opnum[d]) /\ IsServed(x, t)
    BY <1>3
  <2>3. Phase[d] = SODAW_GET_DATA /\ x.tag_request = TagValue_var[d].Tag_var
    BY <2>1, <2>2 DEF RegistrationInv, SameRead
  <2>4. AtLeast(t, TagValue_var[d].Tag_var)
    BY <2>2, <2>3 DEF IsServed, AtLeast
  <2>5. Own(s, m.TagValue_var)'
    BY <1>1 DEF Own, Holds
  <2>6. Own(s, a.TagValue_var)'
    BY <2>1, <2>5
  <2>7. replies'[d][s] = Append(replies[d][s], a)
    BY <1>3, <2>0
  <2> QED
    BY <1>2, <2>1, <2>3, <2>4, <2>6, <2>7 DEF Answer
<1>4. CASE /\ d = c /\ m \in Current(c)
           /\ replies'[d][s] = Append(replies[d][s], AckOf(m))
  <2> DEFINE a == AckOf(m)
             tv == [m.TagValue_var EXCEPT !.Value = NoValue]
  <2>1. tv \in TagValue /\ tv.Tag_var = t
    BY <1>2, DataTypes DEF TagValue
  <2>2. a = [m EXCEPT !.TagValue_var = tv]
    BY DEF Message, AckOf
  <2> HIDE DEF tv
  <2>3. a \in Message /\ a.TagValue_var = tv /\ a.Opnum = m.Opnum /\ a.Phase = m.Phase
    BY <2>1, <2>2 DEF Message
  <2> HIDE DEF a
  <2>4. a \in Current(d) /\ Phase[d] = SODAW_PUT_DATA /\ d \in busy
    BY <1>4, <2>3 DEF Current, putDataResp
  <2>5. t = TagValue_var[d].Tag_var
    BY <1>4, <2>4 DEF PutInv
  <2>6. replies'[d][s] = Append(replies[d][s], a)
    BY <1>4 DEF a
  <2> QED
    BY <1>1, <1>2, <2>1, <2>3, <2>4, <2>5, <2>6 DEF Answer, WillHold
<1> QED
  BY <1>3, <1>4, PutSends

LEMMA StepAnswers ==
  ASSUME TypeOK, ServerInv, ServerInv', OrderInv, NEW s \in Servers, NEW c \in Clients,
         NEW i \in Incarnations, ServerStep(s, c, i), NEW d \in Clients
  PROVE  replies'[d][s] = replies[d][s] \/ \E a \in Message : Answer(d, s, a)
<1> DEFINE m == Head(requests[c][i][s])
<1>1. /\ \/ getTagResp(s, c, i, m) \/ getDataResp(s, c, i, m)
         \/ readCompleteResp(s, c, i, m) \/ putDataResp(s, c, i, m)
      /\ m \in Messages(requests[c][i][s])
  BY TakenMessage DEF ServerStep
<1>2. DataInv(c) /\ PutInv(c) /\ RegistrationInv /\ MessagesInv
  BY DEF OrderInv, OrderInvOf
<1> HIDE DEF m
<1>3. /\ m \in Message /\ m.TagValue_var.Tag_var \in Tag
      /\ m.Phase = SODAW_PUT_DATA => m.TagValue_var.CodeIndex = s
  BY <1>1, <1>2, RequestTags
<1>4. CASE getTagResp(s, c, i, m)
  BY <1>3, <1>4, QueryAnswers
<1>5. CASE getDataResp(s, c, i, m)
  BY <1>1, <1>2, <1>3, <1>5, DataAnswers
<1>6. CASE readCompleteResp(s, c, i, m)
  BY <1>6 DEF readCompleteResp
<1>7. CASE putDataResp(s, c, i, m)
  <2>1. m.TagValue_var.CodeIndex = s
    BY <1>3, <1>7 DEF putDataResp
  <2> QED
    BY <1>1, <1>2, <1>3, <1>7, <2>1, PutAnswers
<1> QED
  BY <1>1, <1>4, <1>5, <1>6, <1>7

-----------------------------------------------------------------------------
(* A client that is answered *)

\* Server s answers d; d itself does not step.
Answered(d, s, a) ==
  /\ SameClient(d) /\ RequestsShrink(d)
  /\ \A t \in Servers : t # s => replies'[d][t] = replies[d][t]
  /\ Answer(d, s, a)

LEMMA AnsweredMessages ==
  ASSUME TypeOK, NEW d \in Clients, NEW s \in Servers, NEW a \in Message, Answered(d, s, a)
  PROVE  /\ Messages(replies'[d][s]) = Messages(replies[d][s]) \cup {a}
         /\ a.TagValue_var \in TagValue
         /\ \A t \in Servers : Messages(replies'[d][t]) \subseteq
              Messages(replies[d][t]) \cup {x \in {a} : t = s}
<1>1. replies[d][s] \in Seq(Message) /\ replies'[d][s] = Append(replies[d][s], a)
  BY DEF TypeOK, Answered, Answer
<1>2. Messages(replies'[d][s]) = Messages(replies[d][s]) \cup {a}
  BY <1>1, SendMessages
<1> QED
  BY <1>2 DEF Message, Answered

LEMMA QueryAnswered ==
  ASSUME TypeOK, ServerInv, Forward, NEW d \in Clients, NEW s \in Servers, NEW a \in Message,
         Answered(d, s, a), QueryInv(d)
  PROVE  QueryInv(d)'
<1> SUFFICES ASSUME InQuery(d)
             PROVE  /\ IF responders'[d] = {} THEN TagValue_var'[d].Tag_var = LowestTag
                       ELSE TagValue_var'[d].Tag_var \in Tag
                    /\ diskErrors' = {} => \E Q \in SUBSET Servers :
                         Cardinality(Q) >= majority /\ \A t \in Q : FloorAnswered(d, t)'
                    /\ \A t \in Servers : AnswerStored(d, t)'
  BY DEF QueryInv, InQuery, SameClient, Answered
<1>1. SameClient(d) /\ Answer(d, s, a)
  BY DEF Answered
<1>2. IF responders'[d] = {} THEN TagValue_var'[d].Tag_var = LowestTag
      ELSE TagValue_var'[d].Tag_var \in Tag
  BY <1>1 DEF QueryInv, SameClient
<1>3. floor[d] \in AnyTag /\ TagValue_var[d].Tag_var \in AnyTag
  BY DataTypes DEF TypeOK
<1>4. /\ a.TagValue_var.Tag_var = Stored(s) /\ Stored(s)' = Stored(s)
      /\ diskErrors' = diskErrors /\ Stored(s) \in AnyTag
  BY <1>1, StoredTypes DEF Answer, InQuery, SODAW_GET_TAG, SODAW_FAST_GET_TAG_DATA,
       SODAW_GET_DATA, SODAW_PUT_DATA
<1>5. ASSUME diskErrors' = {}, NEW t \in Servers, FloorAnswered(d, t) PROVE FloorAnswered(d, t)'
  <2>1. AtLeast(Stored(t)', floor[d])
    BY <1>3, <1>5, ForwardKeeps DEF FloorAnswered, Holds, WillHold
  <2>2. ASSUME NEW m \in Messages(replies'[d][t])
        PROVE  AtLeast(m.TagValue_var.Tag_var, floor[d])
    <3>1. m \in Messages(replies[d][t]) \/ (m = a /\ t = s)
      BY AnsweredMessages
    <3> QED
      BY <1>4, <1>5, <3>1 DEF FloorAnswered
  <2> QED
    BY <1>1, <1>5, <2>1, <2>2 DEF FloorAnswered, SameClient
<1>6. ASSUME NEW t \in Servers PROVE AnswerStored(d, t)'
  <2>1. AnswerStored(d, t)
    BY DEF QueryInv
  <2>2. ASSUME NEW m \in Messages(replies'[d][t])
        PROVE  WillHold(t, m.TagValue_var.Tag_var)
    <3>1. m \in Messages(replies[d][t]) \/ (m = a /\ t = s)
      BY AnsweredMessages
    <3>2. CASE m \in Messages(replies[d][t])
      BY <2>1, <3>2, ReplyTags, ForwardKeeps DEF AnswerStored
    <3>3. CASE m = a /\ t = s
      BY <1>4, <3>3, TagTotal DEF WillHold
    <3> QED
      BY <3>1, <3>2, <3>3
  <2>3. t \in responders[d] /\ IsOnePhase[d] => WillHold(t, TagValue_var[d].Tag_var)
    BY <1>3, <2>1, ForwardKeeps DEF AnswerStored
  <2> QED
    BY <1>1, <2>2, <2>3 DEF AnswerStored, SameClient, Holds, WillHold
<1>7. ASSUME diskErrors' = {}
      PROVE  \E Q \in SUBSET Servers :
               Cardinality(Q) >= majority /\ \A t \in Q : FloorAnswered(d, t)
  <2>1. diskErrors = {}
    BY <1>7 DEF Forward
  <2> QED
    BY <2>1 DEF QueryInv
<1> QED
  BY <1>2, <1>5, <1>6, <1>7

LEMMA PutAnswered ==
  ASSUME TypeOK, ServerInv, Forward, NEW d \in Clients, NEW s \in Servers, NEW a \in Message,
         Answered(d, s, a), PutInv(d)
  PROVE  PutInv(d)'
<1> SUFFICES ASSUME d \in busy, Phase[d] = SODAW_PUT_DATA
             PROVE  /\ TagValue_var'[d].Tag_var \in Tag
                    /\ \A t \in Servers :
                         /\ \A i \in Incarnations :
                              \A m \in Messages(requests'[d][i][t]) \cap Current(d)' :
                                m.TagValue_var.Tag_var = TagValue_var'[d].Tag_var
                         /\ t \in responders'[d] \/ replies'[d][t] # <<>> =>
                              WillHold(t, TagValue_var'[d].Tag_var)
  BY DEF PutInv, SameClient, Answered, Holds, WillHold
<1>1. /\ TagValue_var'[d] = TagValue_var[d] /\ responders'[d] = responders[d]
      /\ TagValue_var[d].Tag_var \in Tag /\ TagValue_var[d].Tag_var \in AnyTag
  BY DataTypes DEF PutInv, SameClient, Answered
<1>2. Current(d)' = Current(d)
  BY SameCurrent DEF Answered
<1>3. ASSUME NEW t \in Servers, NEW i \in Incarnations,
             NEW m \in Messages(requests'[d][i][t]) \cap Current(d)'
      PROVE  m.TagValue_var.Tag_var = TagValue_var'[d].Tag_var
  <2>1. m \in Messages(requests[d][i][t]) \cap Current(d)
    BY <1>2 DEF RequestsShrink, Shrinks, Answered
  <2> QED
    BY <1>1, <2>1 DEF PutInv
<1>4. WillHold(s, TagValue_var[d].Tag_var)
  BY DEF Answered, Answer, InQuery, SODAW_GET_TAG, SODAW_FAST_GET_TAG_DATA, SODAW_GET_DATA,
         SODAW_PUT_DATA
<1>5. ASSUME NEW t \in Servers, t \in responders[d] \/ replies'[d][t] # <<>>
      PROVE  WillHold(t, TagValue_var[d].Tag_var)
  <2>1. t = s \/ replies'[d][t] = replies[d][t]
    BY DEF Answered
  <2> QED
    BY <1>1, <1>4, <1>5, <2>1, ForwardKeeps DEF PutInv
<1> QED
  BY <1>1, <1>3, <1>5

LEMMA DataAnswered ==
  ASSUME TypeOK, ServerInv, Forward, NEW d \in Clients, NEW s \in Servers, NEW a \in Message,
         Answered(d, s, a), DataInv(d)
  PROVE  DataInv(d)'
<1> SUFFICES ASSUME d \in busy, Phase[d] = SODAW_GET_DATA
             PROVE  /\ TagValue_var'[d].Tag_var \in Tag
                    /\ \A t \in Servers :
                         /\ \A i \in Incarnations :
                              \A m \in Messages(requests'[d][i][t]) \cap Current(d)' :
                                m.TagValue_var.Tag_var = TagValue_var'[d].Tag_var
                         /\ \A m \in Messages(replies'[d][t]) :
                              /\ \/ t \in diskErrors'
                                 \/ AtLeast(m.TagValue_var.Tag_var, TagValue_var'[d].Tag_var)
                              /\ Own(t, m.TagValue_var)'
                    /\ \A e \in rx_state'[d] : e.Tag_var \in Tag /\ Own(e.CodeIndex, e)'
                    /\ \A e, f \in rx_state'[d] :
                         e.Tag_var = f.Tag_var /\ e.CodeIndex = f.CodeIndex => e = f
  BY DEF DataInv, SameClient, Answered
<1>1. /\ TagValue_var'[d] = TagValue_var[d] /\ rx_state'[d] = rx_state[d]
      /\ TagValue_var[d].Tag_var \in Tag
      /\ \A e, f \in rx_state[d] :
           e.Tag_var = f.Tag_var /\ e.CodeIndex = f.CodeIndex => e = f
  BY DEF DataInv, SameClient, Answered
<1>2. Current(d)' = Current(d)
  BY SameCurrent DEF Answered
<1>3. ASSUME NEW t \in Servers, NEW i \in Incarnations,
             NEW m \in Messages(requests'[d][i][t]) \cap Current(d)'
      PROVE  m.TagValue_var.Tag_var = TagValue_var'[d].Tag_var
  <2>1. m \in Messages(requests[d][i][t]) \cap Current(d)
    BY <1>2 DEF RequestsShrink, Shrinks, Answered
  <2> QED
    BY <1>1, <2>1 DEF DataInv
<1>4. /\ s \in diskErrors' \/ AtLeast(a.TagValue_var.Tag_var, TagValue_var[d].Tag_var)
      /\ Own(s, a.TagValue_var)'
  BY DEF Answered, Answer, InQuery, SODAW_GET_TAG, SODAW_FAST_GET_TAG_DATA, SODAW_GET_DATA,
         SODAW_PUT_DATA
<1>5. ASSUME NEW t \in Servers, NEW m \in Messages(replies'[d][t])
      PROVE  /\ t \in diskErrors' \/ AtLeast(m.TagValue_var.Tag_var, TagValue_var[d].Tag_var)
             /\ Own(t, m.TagValue_var)'
  <2>1. m \in Messages(replies[d][t]) \/ (m = a /\ t = s)
    BY AnsweredMessages
  <2>2. CASE m \in Messages(replies[d][t])
    <3>1. /\ t \in diskErrors' \/ AtLeast(m.TagValue_var.Tag_var, TagValue_var[d].Tag_var)
          /\ Own(t, m.TagValue_var)
      BY <2>2 DEF DataInv, Forward
    <3>2. PICK tv \in TagValue : tv = m.TagValue_var
      BY <2>2, ReplyTags
    <3>3. Own(t, tv)'
      BY <3>1, <3>2, OwnKeeps
    <3> QED
      BY <3>1, <3>2, <3>3
  <2>3. CASE m = a /\ t = s
    BY <1>4, <2>3
  <2> QED
    BY <2>1, <2>2, <2>3
<1>6. ASSUME NEW e \in rx_state[d] PROVE e.Tag_var \in Tag /\ Own(e.CodeIndex, e)'
  <2>1. e \in TagValue /\ e.CodeIndex \in Servers
    BY DataTypes DEF TypeOK
  <2>2. e.Tag_var \in Tag /\ Own(e.CodeIndex, e)
    BY DEF DataInv
  <2> QED
    BY <2>1, <2>2, OwnKeeps
<1> QED
  BY <1>1, <1>3, <1>5, <1>6

LEMMA ServerStepOrder ==
  ASSUME TypeOK, ServerInv, ServerInv', Forward, OrderInv, NEW s \in Servers,
         NEW c \in Clients, NEW i \in Incarnations, ServerStep(s, c, i), NEW d \in Clients
  PROVE  /\ OrderInvOf(d)'
         /\ \A t \in Servers : \A m \in Messages(replies'[d][t]) :
              m.TagValue_var.Tag_var \in Tag
<1>1. SameClient(d) /\ RequestsShrink(d) /\ OrderInvOf(d)
  BY ServerStepEffect DEF OrderInv
<1>2. \A t \in Servers : t # s => replies'[d][t] = replies[d][t]
  BY StepHandled DEF Handled, AnswersSent
<1>3. \A t \in Servers : \A m \in Messages(replies[d][t]) : m.TagValue_var.Tag_var \in Tag
  BY DEF OrderInv, MessagesInv
<1>4. CASE replies'[d][s] = replies[d][s]
  BY <1>1, <1>2, <1>3, <1>4, OrderFrame
<1>5. CASE replies'[d][s] # replies[d][s]
  <2>1. PICK a \in Message : Answer(d, s, a)
    BY <1>5, StepAnswers
  <2>2. Answered(d, s, a)
    BY <1>1, <1>2, <2>1 DEF Answered
  <2>3. OrderInvOf(d)'
    BY <1>1, <2>2, QueryAnswered, PutAnswered, DataAnswered DEF OrderInvOf
  <2>4. ASSUME NEW t \in Servers, NEW m \in Messages(replies'[d][t])
        PROVE  m.TagValue_var.Tag_var \in Tag
    <3>1. m \in Messages(replies[d][t]) \/ m = a
      BY <2>2, AnsweredMessages
    <3> QED
      BY <1>3, <2>1, <3>1 DEF Answer
  <2> QED
    BY <2>3, <2>4
<1> QED
  BY <1>4, <1>5

\* What a step of a server registers.
LEMMA Registers ==
  ASSUME TypeOK, NEW s \in Servers, NEW c \in Clients, NEW i \in Incarnations,
         NEW m \in Message, getDataResp(s, c, i, m) \/ readCompleteResp(s, c, i, m),
         NEW t \in Servers, NEW x \in readsInProgress'[t]
  PROVE  \/ x \in readsInProgress[t]
         \/ /\ x.reader_name = c /\ x.opnum = m.Opnum
            /\ x.tag_request = m.TagValue_var.Tag_var
<1>1. \/ readsInProgress' = readsInProgress
      \/ unregisterRead(s, c, m.Opnum)
      \/ \E b \in BOOLEAN : registerNewRead(s, c, i, m, b)
  BY DEF getDataResp, readCompleteResp
<1>2. readsInProgress \in [Servers -> SUBSET ReadsInProgress]
  BY DEF TypeOK
<1>3. CASE unregisterRead(s, c, m.Opnum)
  BY <1>2, <1>3 DEF unregisterRead
<1>4. CASE \E b \in BOOLEAN : registerNewRead(s, c, i, m, b)
  BY <1>2, <1>4 DEF registerNewRead
<1> QED
  BY <1>1, <1>3, <1>4

LEMMA ServerStepRegistrations ==
  ASSUME TypeOK, ChannelInv, OrderInv, NEW s \in Servers, NEW c \in Clients,
         NEW i \in Incarnations, ServerStep(s, c, i)
  PROVE  RegistrationInv'
<1> DEFINE m == Head(requests[c][i][s])
<1>1. /\ \/ getTagResp(s, c, i, m) \/ getDataResp(s, c, i, m)
         \/ readCompleteResp(s, c, i, m) \/ putDataResp(s, c, i, m)
      /\ m \in Messages(requests[c][i][s])
  BY TakenMessage DEF ServerStep
<1>2. DataInv(c) /\ RegistrationInv /\ MessagesInv /\ InOrder(c)
  BY DEF OrderInv, OrderInvOf, ChannelInv, ChannelInvOf
<1> HIDE DEF m
<1>3. m \in Message /\ NotFromTheFuture(c, m)
  BY <1>1, <1>2, RequestTags DEF InOrder
<1>4. \A d \in Clients : SameClient(d)
  BY ServerStepEffect
<1>5. ASSUME NEW t \in Servers, NEW x \in readsInProgress'[t]
      PROVE  \/ x \in readsInProgress[t]
             \/ /\ x.reader_name = c /\ x.opnum = m.Opnum
                /\ x.tag_request = m.TagValue_var.Tag_var
                /\ m.Phase \in {SODAW_GET_DATA, SODAW_READ_COMPLETE}
  <2>1. CASE getTagResp(s, c, i, m) \/ putDataResp(s, c, i, m)
    BY <1>5, <2>1 DEF getTagResp, putDataResp, serverVars
  <2>2. CASE getDataResp(s, c, i, m) \/ readCompleteResp(s, c, i, m)
    <3>1. m.Phase \in {SODAW_GET_DATA, SODAW_READ_COMPLETE}
      BY <2>2 DEF getDataResp, readCompleteResp
    <3> QED
      BY <1>3, <1>5, <2>2, <3>1, Registers
  <2> QED
    BY <1>1, <2>1, <2>2
<1>6. readsInProgress' \in [Servers -> SUBSET ReadsInProgress]
  BY StepHandled DEF Handled
<1>7. ASSUME NEW t \in Servers, NEW x \in readsInProgress'[t]
      PROVE  /\ x.opnum <= Opnum'[x.reader_name]
             /\ x.reader_name \in busy' /\ x.opnum = Opnum'[x.reader_name] =>
                  /\ Phase'[x.reader_name] = SODAW_GET_DATA
                  /\ x.tag_request = TagValue_var'[x.reader_name].Tag_var
  <2>1. x \in ReadsInProgress
    BY <1>6, <1>7
  <2>2. SameClient(x.reader_name)
    BY <1>4, <2>1 DEF ReadsInProgress
  <2>3. CASE x \in readsInProgress[t]
    BY <1>2, <2>2, <2>3 DEF RegistrationInv, SameClient
  <2>4. CASE /\ x.reader_name = c /\ x.opnum = m.Opnum
             /\ x.tag_request = m.TagValue_var.Tag_var
             /\ m.Phase \in {SODAW_GET_DATA, SODAW_READ_COMPLETE}
    <3>1. x.opnum <= Opnum[c]
      BY <1>3, <2>4 DEF NotFromTheFuture
    <3>2. ASSUME c \in busy, x.opnum = Opnum[c]
          PROVE  Phase[c] = SODAW_GET_DATA /\ x.tag_request = TagValue_var[c].Tag_var
      <4>1. m.Phase = Phase[c] /\ Phase[c] # SODAW_READ_COMPLETE
        BY <1>2, <1>3, <2>4, <3>2 DEF NotFromTheFuture, InOrder
      <4>2. m \in Current(c) /\ Phase[c] = SODAW_GET_DATA
        BY <1>3, <2>4, <3>2, <4>1 DEF Current
      <4> QED
        BY <1>1, <1>2, <2>4, <3>2, <4>2 DEF DataInv
    <3> QED
      BY <2>2, <2>4, <3>1, <3>2 DEF SameClient
  <2> QED
    BY <1>5, <2>3, <2>4
<1> QED
  BY <1>7 DEF RegistrationInv

-----------------------------------------------------------------------------
(* One client and what is stored for it *)

RegistrationsOf(c) ==
  \A s \in Servers : \A x \in readsInProgress[s] : x.reader_name = c =>
    /\ x.opnum <= Opnum[c]
    /\ c \in busy /\ x.opnum = Opnum[c] =>
         Phase[c] = SODAW_GET_DATA /\ x.tag_request = TagValue_var[c].Tag_var

MessagesOf(c) ==
  \A s \in Servers :
    /\ \A i \in Incarnations : \A m \in Messages(requests[c][i][s]) :
         /\ m.TagValue_var.Tag_var \in Tag
         /\ m.Phase = SODAW_PUT_DATA => m.TagValue_var.CodeIndex = s
    /\ \A m \in Messages(replies[c][s]) : m.TagValue_var.Tag_var \in Tag

ClientInv(c) == OrderInvOf(c) /\ RegistrationsOf(c) /\ MessagesOf(c)

LEMMA OrderIsClients ==
  ASSUME OrderInv, NEW c \in Clients
  PROVE  ClientInv(c)
BY DEF OrderInv, RegistrationInv, MessagesInv, ClientInv, RegistrationsOf, MessagesOf

LEMMA ClientsAreOrder ==
  ASSUME TypeOK', \A c \in Clients : ClientInv(c)', CompletedHeld', NoOldElement'
  PROVE  OrderInv'
<1>1. ASSUME NEW s \in Servers, NEW x \in readsInProgress'[s] PROVE x.reader_name \in Clients
  <2>1. x \in ReadsInProgress
    BY DEF TypeOK
  <2> QED
    BY <2>1 DEF ReadsInProgress
<1>2. RegistrationInv'
  BY <1>1 DEF RegistrationInv, ClientInv, RegistrationsOf
<1>3. MessagesInv'
  BY DEF MessagesInv, ClientInv, MessagesOf
<1> QED
  BY <1>2, <1>3 DEF OrderInv, ClientInv

\* A client that does not step, and is sent nothing.
LEMMA ClientFrame ==
  ASSUME TypeOK, ServerInv, UNCHANGED serverVars, NEW d \in Clients, SameClient(d),
         RequestsShrink(d), \A s \in Servers : replies'[d][s] = replies[d][s], ClientInv(d)
  PROVE  ClientInv(d)'
<1>1. OrderInvOf(d)'
  BY StillForward, OrderFrame DEF ClientInv
<1>2. RegistrationsOf(d)'
  BY DEF ClientInv, RegistrationsOf, SameClient, serverVars
<1>3. MessagesOf(d)'
  BY DEF ClientInv, MessagesOf, RequestsShrink, Shrinks
<1> QED
  BY <1>1, <1>2, <1>3 DEF ClientInv

LEMMA ClientIdle ==
  ASSUME TypeOK, ServerInv, UNCHANGED serverVars, NEW d \in Clients, Idle(d), ClientInv(d)
  PROVE  ClientInv(d)'
<1>1. SameClient(d) /\ RequestsShrink(d) /\ \A s \in Servers : replies'[d][s] = replies[d][s]
  BY SameShrinks DEF Idle, RequestsShrink
<1> QED
  BY <1>1, ClientFrame

\* What a broadcast leaves on the way.
LEMMA Broadcast ==
  ASSUME TypeOK, NEW c \in Clients, NEW opnum \in Nat, NEW phase \in Phases,
         NEW payload \in [Servers -> TagValue], SendToServers(c, opnum, phase, payload)
  PROVE  \A i \in Incarnations, s \in Servers : \A m \in Messages(requests'[c][i][s]) :
           \/ m \in Messages(requests[c][i][s])
           \/ m = [Opnum |-> opnum, Phase |-> phase, TagValue_var |-> payload[s]]
<1>1. \A d \in Clients, i \in Incarnations, s \in Servers :
         \/ /\ requests'[d][i][s] = requests[d][i][s]
            /\ NothingLost => ~ (d = c /\ i = incarnation[c])
         \/ /\ d = c /\ i = incarnation[c]
            /\ requests'[d][i][s] = Append(requests[d][i][s],
                 [Opnum |-> opnum, Phase |-> phase, TagValue_var |-> payload[s]])
  BY SendEffect
<1> TAKE i \in Incarnations, s \in Servers
<1>2. PICK n \in Message : n = [Opnum |-> opnum, Phase |-> phase, TagValue_var |-> payload[s]]
  BY DEF Message
<1>3. requests'[c][i][s] = requests[c][i][s] \/ requests'[c][i][s] = Append(requests[c][i][s], n)
  BY <1>1, <1>2
<1>4. requests[c][i][s] \in Seq(Message)
  BY DEF TypeOK
<1>5. Messages(Append(requests[c][i][s], n)) = Messages(requests[c][i][s]) \cup {n}
  BY <1>4, SendMessages
<1> QED
  BY <1>2, <1>3, <1>5

\* The messages of a client that begins a phase or ends.
LEMMA BroadcastMessages ==
  ASSUME TypeOK, NEW c \in Clients, NEW opnum \in Nat, NEW phase \in Phases,
         NEW payload \in [Servers -> TagValue], SendToServers(c, opnum, phase, payload),
         \A s \in Servers : payload[s].Tag_var \in Tag,
         phase = SODAW_PUT_DATA => \A s \in Servers : payload[s].CodeIndex = s,
         \A s \in Servers : replies'[c][s] = <<>>, MessagesOf(c)
  PROVE  MessagesOf(c)'
<1>1. ASSUME NEW s \in Servers, NEW i \in Incarnations, NEW m \in Messages(requests'[c][i][s])
      PROVE  /\ m.TagValue_var.Tag_var \in Tag
             /\ m.Phase = SODAW_PUT_DATA => m.TagValue_var.CodeIndex = s
  <2>1. \/ m \in Messages(requests[c][i][s])
        \/ m = [Opnum |-> opnum, Phase |-> phase, TagValue_var |-> payload[s]]
    BY Broadcast
  <2>2. CASE m \in Messages(requests[c][i][s])
    BY <2>2 DEF MessagesOf
  <2>3. CASE m = [Opnum |-> opnum, Phase |-> phase, TagValue_var |-> payload[s]]
    BY <2>3
  <2> QED
    BY <2>1, <2>2, <2>3
<1> QED
  BY <1>1, EmptyMessages DEF MessagesOf

\* Between two operations nothing is asked of a client.
LEMMA ClientBetween ==
  ASSUME NEW c \in Clients, c \notin busy', Opnum'[c] = Opnum[c], UNCHANGED serverVars,
         ClientInv(c), MessagesOf(c)'
  PROVE  ClientInv(c)'
<1>1. OrderInvOf(c)'
  BY DEF OrderInvOf, QueryInv, PutInv, DataInv, InQuery
<1>2. RegistrationsOf(c)'
  BY DEF ClientInv, RegistrationsOf, serverVars
<1> QED
  BY <1>1, <1>2 DEF ClientInv

-----------------------------------------------------------------------------
(* Steps of clients *)

LEMMA StartOperationOrder ==
  ASSUME TypeOK, ServerInv, CompletedHeld, NEW c \in Clients,
         NEW phase \in {SODAW_GET_TAG, SODAW_FAST_GET_TAG_DATA}, StartOperation(c, phase),
         ClientInv(c)
  PROVE  ClientInv(c)'
<1>1. /\ phase \in Phases /\ Opnum[c] \in Nat /\ Opnum[c] + 1 \in Nat
      /\ phase \notin {SODAW_PUT_DATA, SODAW_GET_DATA}
      /\ ToAll(TagOnly(ZeroTag)) \in [Servers -> TagValue]
      /\ \A s \in Servers : ToAll(TagOnly(ZeroTag))[s].Tag_var \in Tag
  <2>1. TagOnly(ZeroTag) \in TagValue /\ TagOnly(ZeroTag).Tag_var \in Tag
    BY DataTypes
  <2> QED
    BY <2>1, DataTypes, ToAllType
    DEF TypeOK, SODAW_GET_TAG, SODAW_FAST_GET_TAG_DATA, SODAW_PUT_DATA, SODAW_GET_DATA
<1>2. /\ c \notin busy /\ c \in busy' /\ Opnum'[c] = Opnum[c] + 1
      /\ floor'[c] = completed /\ completed' = completed /\ UNCHANGED serverVars
      /\ EnterPhase(c, phase, TagOnly(LowestTag))
      /\ SendToServers(c, Opnum[c] + 1, phase, ToAll(TagOnly(ZeroTag)))
  BY <1>1, StartOperationEffect
<1>3. /\ Phase'[c] = phase /\ TagValue_var'[c].Tag_var = LowestTag /\ responders'[c] = {}
      /\ \A s \in Servers : replies'[c][s] = <<>>
  <2>1. /\ Phase'[c] = phase /\ responders'[c] = {}
        /\ \A s \in Servers : replies'[c][s] = <<>>
    BY <1>2, EnterPhaseEffect
  <2>2. TagValue_var'[c] = TagOnly(LowestTag)
    BY ZenonT(40), <1>2, EnterPhaseEffect
  <2> QED
    BY <2>1, <2>2, DataTypes
<1>4. MessagesOf(c)'
  BY <1>1, <1>2, <1>3, BroadcastMessages DEF ClientInv
<1>5. RegistrationsOf(c)'
  <2>1. \A s \in Servers : \A x \in readsInProgress[s] : x \in ReadsInProgress
    BY DEF TypeOK
  <2>2. \A s \in Servers : \A x \in readsInProgress[s] : x.opnum \in Nat
    BY <2>1 DEF ReadsInProgress
  <2>3. \A s \in Servers : \A x \in readsInProgress[s] : x.reader_name = c =>
          x.opnum <= Opnum'[c] /\ x.opnum # Opnum'[c]
    BY <1>1, <1>2, <2>2 DEF ClientInv, RegistrationsOf
  <2> QED
    BY <1>2, <2>3 DEF RegistrationsOf, serverVars
<1>6. QueryInv(c)'
  <2>1. diskErrors' = diskErrors /\ \A s \in Servers : Stored(s)' = Stored(s)
    BY <1>2 DEF Stored, serverVars
  <2>2. diskErrors' = {} => \A s \in Holders(completed) : FloorAnswered(c, s)'
    BY <1>2, <1>3, <2>1, EmptyMessages DEF FloorAnswered, Holders, Holds
  <2>3. \A s \in Servers : AnswerStored(c, s)'
    BY <1>3, EmptyMessages DEF AnswerStored
  <2>4. Holders(completed) \in SUBSET Servers /\ Cardinality(Holders(completed)) >= majority
    <3>1. Holders(completed) \in SUBSET Servers
      BY DEF Holders
    <3>2. Cardinality(Holders(completed)) \in Nat
      BY <3>1, ServersAssumption, FS_Subset, FS_CardinalityType
    <3> QED
      BY <3>1, <3>2, DataTypes DEF CompletedHeld
  <2> QED
    BY <1>3, <2>2, <2>3, <2>4 DEF QueryInv
<1>7. PutInv(c)' /\ DataInv(c)'
  BY <1>1, <1>3 DEF PutInv, DataInv
<1> QED
  BY <1>4, <1>5, <1>6, <1>7 DEF ClientInv, OrderInvOf

\* A client in a query that has counted a reply holds a tag that was chosen, and
\* a majority and K are at least one.
LEMMA QuorumTag ==
  ASSUME TypeOK, NEW c \in Clients, ChannelInvOf(c), QueryInv(c), HasQuorum(c), InQuery(c)
  PROVE  /\ TagValue_var[c].Tag_var \in Tag
         /\ Cardinality(responders[c]) = quorum_size(Phase[c])
<1>1. /\ num_responses[c] = Cardinality(responders[c])
      /\ num_responses[c] = quorum_size(Phase[c])
  BY DEF ChannelInvOf, Counted, HasQuorum
<1>2. quorum_size(Phase[c]) >= 1
  <2>1. Cardinality(Servers) \in Nat
    BY ServersAssumption, FS_CardinalityType
  <2>2. majority >= 1 /\ K >= majority /\ K \in Int
    BY <2>1, KAssumption DEF majority
  <2>3. majority \in Nat
    BY DataTypes
  <2> QED
    BY <2>2, <2>3 DEF quorum_size
<1>3. responders[c] # {}
  <2>1. Cardinality(responders[c]) # 0
    BY <1>1, <1>2
  <2> QED
    BY <2>1, FS_EmptySet
<1> QED
  BY <1>1, <1>3 DEF QueryInv

LEMMA WriterPutsDataOrder ==
  ASSUME TypeOK, ServerInv, NEW w \in Clients, WriterPutsData(w), ChannelInvOf(w), ClientInv(w)
  PROVE  ClientInv(w)'
<1> DEFINE tv == [TagOnly(newTag(w)) EXCEPT !.Value = <<w, Opnum[w]>>]
           payload == [s \in Servers |-> [tv EXCEPT !.CodeIndex = s]]
<1>1. /\ w \in Writers /\ w \in busy /\ Phase[w] = SODAW_GET_TAG
      /\ payload \in [Servers -> TagValue]
      /\ \A s \in Servers : payload[s].Tag_var = newTag(w) /\ payload[s].CodeIndex = s
      /\ tv.Tag_var = newTag(w) /\ newTag(w) \in Tag
      /\ EnterPhase(w, SODAW_PUT_DATA, tv)
      /\ SendToServers(w, Opnum[w], SODAW_PUT_DATA, payload)
      /\ UNCHANGED <<serverVars, busy, Opnum, incarnation>>
  BY WriterPutsDataEffect DEF HasQuorum
<1> HIDE DEF tv, payload
<1>2. SODAW_PUT_DATA \in Phases /\ Opnum[w] \in Nat
  BY DataTypes DEF TypeOK
<1>3. \A i \in Incarnations, s \in Servers : \A n \in Messages(requests[w][i][s]) :
        /\ n.Opnum <= Opnum[w]
        /\ n.Opnum = Opnum[w] =>
             /\ n.Phase # SODAW_PUT_DATA
             /\ n.Phase \notin {SODAW_PUT_DATA, SODAW_GET_DATA, SODAW_READ_COMPLETE}
  BY <1>1, FromQuery
<1>4. /\ Phase'[w] = SODAW_PUT_DATA /\ TagValue_var'[w] = tv /\ responders'[w] = {}
      /\ \A s \in Servers : replies'[w][s] = <<>>
  <2>1. /\ Phase'[w] = SODAW_PUT_DATA /\ responders'[w] = {}
        /\ \A s \in Servers : replies'[w][s] = <<>>
    BY <1>1, EnterPhaseEffect
  <2>2. TagValue_var'[w] = tv
    BY <1>1 DEF EnterPhase, TypeOK
  <2> QED
    BY <2>1, <2>2
<1>5. MessagesOf(w)'
  BY <1>1, <1>2, <1>4, BroadcastMessages DEF ClientInv
<1>6. RegistrationsOf(w)'
  BY <1>1, <1>4 DEF ClientInv, RegistrationsOf, serverVars, SODAW_GET_TAG, SODAW_GET_DATA
<1>7. ASSUME NEW s \in Servers, NEW i \in Incarnations,
             NEW m \in Messages(requests'[w][i][s]) \cap Current(w)'
      PROVE  m.TagValue_var.Tag_var = TagValue_var'[w].Tag_var
  <2>1. m.Opnum = Opnum[w] /\ m.Phase = SODAW_PUT_DATA
    BY <1>1, <1>4 DEF Current
  <2>2. m = [Opnum |-> Opnum[w], Phase |-> SODAW_PUT_DATA, TagValue_var |-> payload[s]]
    BY <1>1, <1>2, <1>3, <2>1, Broadcast
  <2> QED
    BY <1>1, <1>4, <2>2
<1>8. OrderInvOf(w)'
  BY <1>1, <1>4, <1>7 DEF OrderInvOf, QueryInv, PutInv, DataInv, InQuery, SODAW_PUT_DATA,
     SODAW_GET_DATA, SODAW_GET_TAG, SODAW_FAST_GET_TAG_DATA
<1> QED
  BY <1>5, <1>6, <1>8 DEF ClientInv

LEMMA ReaderAsksForDataOrder ==
  ASSUME TypeOK, ServerInv, NEW r \in Clients, ReaderAsksForData(r), ChannelInvOf(r), ClientInv(r)
  PROVE  ClientInv(r)'
<1> DEFINE tv == TagValue_var[r]
           payload == ToAll(tv)
<1>1. /\ r \in Readers /\ HasQuorum(r)
      /\ EnterPhase(r, SODAW_GET_DATA, tv)
      /\ SendToServers(r, Opnum[r], SODAW_GET_DATA, payload)
      /\ payload \in [Servers -> TagValue] /\ \A s \in Servers : payload[s] = tv
      /\ UNCHANGED <<serverVars, busy, Opnum, incarnation>>
  BY ReaderAsksForDataEffect
<1>2. r \in busy /\ Phase[r] \in {SODAW_GET_TAG, SODAW_FAST_GET_TAG_DATA}
  BY <1>1, ReaderQuorum
<1>3. tv.Tag_var \in Tag
  BY <1>1, <1>2, QuorumTag DEF ClientInv, OrderInvOf, InQuery
<1> HIDE DEF tv, payload
<1>4. SODAW_GET_DATA \in Phases /\ Opnum[r] \in Nat /\ SODAW_GET_DATA # SODAW_PUT_DATA
  BY DataTypes DEF TypeOK, SODAW_GET_DATA, SODAW_PUT_DATA
<1>5. \A i \in Incarnations, s \in Servers : \A n \in Messages(requests[r][i][s]) :
        /\ n.Opnum <= Opnum[r]
        /\ n.Opnum = Opnum[r] =>
             /\ n.Phase # SODAW_GET_DATA
             /\ n.Phase \notin {SODAW_PUT_DATA, SODAW_GET_DATA, SODAW_READ_COMPLETE}
  BY <1>2, FromQuery
<1>6. /\ Phase'[r] = SODAW_GET_DATA /\ TagValue_var'[r] = tv /\ responders'[r] = {}
      /\ rx_state'[r] = {} /\ \A s \in Servers : replies'[r][s] = <<>>
  <2>1. /\ Phase'[r] = SODAW_GET_DATA /\ responders'[r] = {} /\ rx_state'[r] = {}
        /\ \A s \in Servers : replies'[r][s] = <<>>
    BY <1>1, EnterPhaseEffect
  <2>2. TagValue_var'[r] = tv
    BY ZenonT(40), <1>1, EnterPhaseEffect
  <2> QED
    BY <2>1, <2>2
<1>7. MessagesOf(r)'
  BY <1>1, <1>3, <1>4, <1>6, BroadcastMessages DEF ClientInv
<1>8. RegistrationsOf(r)'
  BY <1>1, <1>2, <1>6 DEF ClientInv, RegistrationsOf, serverVars, SODAW_GET_TAG,
     SODAW_FAST_GET_TAG_DATA, SODAW_GET_DATA
<1>9. ASSUME NEW s \in Servers, NEW i \in Incarnations,
             NEW m \in Messages(requests'[r][i][s]) \cap Current(r)'
      PROVE  m.TagValue_var.Tag_var = TagValue_var'[r].Tag_var
  <2>1. m.Opnum = Opnum[r] /\ m.Phase = SODAW_GET_DATA
    BY <1>1, <1>6 DEF Current
  <2>2. m = [Opnum |-> Opnum[r], Phase |-> SODAW_GET_DATA, TagValue_var |-> payload[s]]
    BY <1>1, <1>4, <1>5, <2>1, Broadcast
  <2> QED
    BY <1>1, <1>6, <2>2
<1>10. OrderInvOf(r)'
  BY <1>2, <1>3, <1>6, <1>9, EmptyMessages DEF OrderInvOf, QueryInv, PutInv, DataInv, InQuery,
     SODAW_PUT_DATA, SODAW_GET_DATA, SODAW_GET_TAG, SODAW_FAST_GET_TAG_DATA
<1> QED
  BY <1>7, <1>8, <1>10 DEF ClientInv

\* A reply is counted in a query: the client keeps the larger tag, unless it has
\* returned from its loop with a tag that a majority had answered.
LEMMA CollectReplyQuery ==
  ASSUME TypeOK, NEW c \in Clients, NEW s \in Servers, CollectReply(c, s),
         ChannelInvOf(c), QueryInv(c), MessagesOf(c), InQuery(c)
  PROVE  QueryInv(c)'
<1> DEFINE tv == Head(replies[c][s]).TagValue_var
           t == tv.Tag_var
           T0 == TagValue_var[c].Tag_var
           T1 == TagValue_var'[c].Tag_var
<1>1. /\ c \in busy /\ num_responses[c] = Cardinality(responders[c])
      /\ replies[c][s] # <<>> /\ Phase[c] # SODAW_PUT_DATA
      /\ \/ HasReturned(c) /\ UNCHANGED <<TagValue_var, IsOnePhase>>
         \/ /\ ~ HasReturned(c)
            /\ TagValue_var'[c] = IF IsSmallerThan(T0, t) THEN TagOnly(t) ELSE TagValue_var[c]
            /\ IsOnePhase'[c] <=> StaysOnePhase(c, tv)
      /\ responders'[c] = responders[c] \cup {s}
      /\ replies'[c][s] = Tail(replies[c][s])
      /\ \A q \in Servers : q # s => replies'[c][q] = replies[c][q]
      /\ UNCHANGED <<serverVars, busy, Phase>> /\ floor'[c] = floor[c]
  <2>1. CountsReplies(c) /\ c \in busy
    BY CollectReplyEffect
  <2>2. Phase[c] # SODAW_PUT_DATA
    BY DEF InQuery, SODAW_GET_TAG, SODAW_FAST_GET_TAG_DATA, SODAW_PUT_DATA
  <2>3. num_responses[c] = Cardinality(responders[c])
    BY <2>1 DEF ChannelInvOf, Counted
  <2> QED
    BY <2>1, <2>2, <2>3, CollectReplyEffect DEF historyVars
<1>2. /\ Head(replies[c][s]) \in Messages(replies[c][s]) /\ tv \in TagValue /\ t \in AnyTag
      /\ \A q \in Servers : Messages(replies'[c][q]) \subseteq Messages(replies[c][q])
  BY <1>1, ReceiveType, DataTypes
<1>3. t \in Tag
  BY <1>2 DEF MessagesOf
<1>4. /\ T0 \in AnyTag /\ floor[c] \in AnyTag /\ TagOnly(t).Tag_var = t
      /\ \A q \in Servers : Stored(q)' = Stored(q) /\ Stored(q) \in AnyTag
  BY <1>1, <1>2, DataTypes DEF TypeOK, Stored, serverVars
<1>9. diskErrors' = diskErrors
  BY <1>1 DEF serverVars
<1>5. diskErrors = {} => \E Q \in SUBSET Servers :
        Cardinality(Q) >= majority /\ \A q \in Q : FloorAnswered(c, q)
  BY DEF QueryInv
<1>6. responders[c] \subseteq Servers /\ responders'[c] \subseteq Servers
      /\ IsFiniteSet(responders[c]) /\ Cardinality(responders[c]) \in Nat
  BY <1>1, ServersAssumption, FS_Subset, FS_CardinalityType DEF TypeOK
<1> HIDE DEF tv, t, T0, T1
<1>7. CASE HasReturned(c) /\ UNCHANGED <<TagValue_var, IsOnePhase>>
  <2>1. ~ IsOnePhase[c] /\ Cardinality(responders[c]) >= majority
    BY <1>1, <1>7 DEF HasReturned
  <2>2. responders[c] # {}
    <3>1. majority >= 1
      <4>1. Cardinality(Servers) \in Nat
        BY ServersAssumption, FS_CardinalityType
      <4> QED
        BY <4>1 DEF majority
    <3>2. majority \in Nat
      BY DataTypes
    <3>3. Cardinality(responders[c]) # 0
      BY <1>6, <2>1, <3>1, <3>2
    <3> QED
      BY <3>3, FS_EmptySet
  <2>3. T0 \in Tag
    BY <2>2 DEF QueryInv, T0
  <2>4. TagValue_var'[c] = TagValue_var[c] /\ ~ IsOnePhase'[c]
    BY <1>7, <2>1
  <2>5. ASSUME diskErrors = {}
        PROVE  \E Q \in SUBSET Servers :
                 Cardinality(Q) >= majority /\ \A q \in Q : FloorAnswered(c, q)'
    <3>1. PICK Q \in SUBSET Servers :
            Cardinality(Q) >= majority /\ \A q \in Q : FloorAnswered(c, q)
      BY <1>5, <2>5
    <3>2. PICK q0 \in responders[c] : q0 \in Q
      BY <1>6, <2>1, <3>1, ServersAssumption, MajoritiesIntersect DEF majority
    <3>3. AtLeast(T0, floor[c])
      BY <3>1, <3>2 DEF FloorAnswered, T0
    <3>4. ASSUME NEW q \in Q PROVE FloorAnswered(c, q)'
      <4>1. /\ AtLeast(Stored(q), floor[c])
            /\ \A m \in Messages(replies[c][q]) : AtLeast(m.TagValue_var.Tag_var, floor[c])
        BY <3>1, <3>4 DEF FloorAnswered
      <4> QED
        BY <1>1, <1>2, <1>4, <2>4, <3>3, <4>1 DEF FloorAnswered, T0
    <3> QED
      BY <3>1, <3>4
  <2>6. ASSUME NEW q \in Servers PROVE AnswerStored(c, q)'
    <3>1. \A m \in Messages(replies[c][q]) : Holds(q, m.TagValue_var.Tag_var)
      BY DEF QueryInv, AnswerStored
    <3> QED
      BY <1>2, <1>4, <1>9, <2>4, <3>1 DEF AnswerStored, Holds
  <2>7. responders'[c] # {}
    BY <1>1
  <2> QED
    BY <1>9, <2>3, <2>4, <2>5, <2>6, <2>7 DEF QueryInv, T0
<1>8. CASE /\ ~ HasReturned(c)
           /\ TagValue_var'[c] = IF IsSmallerThan(T0, t) THEN TagOnly(t) ELSE TagValue_var[c]
           /\ IsOnePhase'[c] <=> StaysOnePhase(c, tv)
  <2>1. T1 = IF IsSmallerThan(T0, t) THEN t ELSE T0
    BY <1>4, <1>8 DEF T0, T1
  <2>2. AtLeast(T1, T0) /\ AtLeast(T1, t) /\ T1 \in AnyTag
    BY <1>2, <1>4, <2>1, TagTotal, TagComparisonsAgree DEF AtLeast
  <2>3. T1 \in Tag
    <3>1. CASE responders[c] = {}
      <4>1. T0 = LowestTag
        BY <3>1 DEF QueryInv, T0
      <4> QED
        BY <1>3, <2>1, <4>1 DEF IsSmallerThan, LowestTag, Tag
    <3>2. CASE responders[c] # {}
      <4>1. T0 \in Tag
        BY <3>2 DEF QueryInv, T0
      <4> QED
        BY <1>3, <2>1, <4>1
    <3> QED
      BY <3>1, <3>2
  <2>4. ASSUME NEW q \in Servers, FloorAnswered(c, q) PROVE FloorAnswered(c, q)'
    <3>1. /\ AtLeast(Stored(q), floor[c])
          /\ \A m \in Messages(replies[c][q]) : AtLeast(m.TagValue_var.Tag_var, floor[c])
          /\ q \in responders[c] => AtLeast(T0, floor[c])
      BY <2>4 DEF FloorAnswered, T0
    <3>2. q = s => AtLeast(t, floor[c])
      BY <1>2, <3>1 DEF t, tv
    <3>3. q \in responders'[c] => AtLeast(T1, floor[c])
      BY <1>1, <1>2, <1>4, <2>2, <3>1, <3>2, TagTransitive
    <3> QED
      BY <1>1, <1>2, <1>4, <3>1, <3>3 DEF FloorAnswered, T1
  <2>5. ASSUME NEW q \in Servers PROVE AnswerStored(c, q)'
    <3>1. /\ \A m \in Messages(replies[c][q]) : Holds(q, m.TagValue_var.Tag_var)
          /\ q \in responders[c] /\ IsOnePhase[c] => Holds(q, T0)
      BY DEF QueryInv, AnswerStored, T0
    <3>2. ASSUME q \in responders'[c], IsOnePhase'[c] PROVE Holds(q, T1)
      <4>1. IsOnePhase[c] /\ (num_responses[c] > 0 => t = T0)
        BY <1>8, <3>2 DEF StaysOnePhase, t, T0
      <4>2. CASE responders[c] = {}
        <5>1. q = s /\ Holds(q, t)
          BY <1>1, <1>2, <3>1, <3>2, <4>2 DEF t, tv
        <5>2. T0 = LowestTag
          BY <4>2 DEF QueryInv, T0
        <5>3. T1 = t
          BY <1>3, <2>1, <5>2 DEF IsSmallerThan, LowestTag, Tag
        <5> QED
          BY <5>1, <5>3
      <4>3. CASE responders[c] # {}
        <5>1. num_responses[c] > 0
          <6>1. Cardinality(responders[c]) # 0
            BY <1>6, <4>3, FS_EmptySet
          <6> QED
            BY <1>1, <1>6, <6>1
        <5>2. T1 = T0 /\ t = T0
          BY <2>1, <4>1, <5>1
        <5>3. q = s => Holds(q, t)
          BY <1>2, <3>1 DEF t, tv
        <5> QED
          BY <1>1, <3>1, <3>2, <4>1, <5>2, <5>3
      <4> QED
        BY <4>2, <4>3
    <3> QED
      BY <1>2, <1>4, <1>9, <3>1, <3>2 DEF AnswerStored, Holds, T1
  <2>6. responders'[c] # {}
    BY <1>1
  <2> QED
    BY <1>5, <1>9, <2>3, <2>4, <2>5, <2>6 DEF QueryInv, T1
<1> QED
  BY <1>1, <1>7, <1>8

LEMMA CollectReplyOrder ==
  ASSUME TypeOK, ServerInv, NEW c \in Clients, NEW s \in Servers, CollectReply(c, s),
         ChannelInvOf(c), ClientInv(c)
  PROVE  ClientInv(c)'
<1>1. /\ c \in busy /\ Phase[c] # SODAW_GET_DATA /\ replies[c][s] # <<>>
      /\ responders'[c] = responders[c] \cup {s}
      /\ replies'[c][s] = Tail(replies[c][s])
      /\ \A q \in Servers : q # s => replies'[c][q] = replies[c][q]
      /\ UNCHANGED <<serverVars, busy, Opnum, Phase, incarnation, requests>>
      /\ Phase[c] = SODAW_PUT_DATA => UNCHANGED TagValue_var
  BY CollectReplyEffect DEF CountsReplies
<1>2. \A q \in Servers : Messages(replies'[c][q]) \subseteq Messages(replies[c][q])
  BY <1>1, ReceiveType
<1>3. MessagesOf(c)'
  BY <1>1, <1>2 DEF ClientInv, MessagesOf
<1>4. RegistrationsOf(c)'
  BY <1>1 DEF ClientInv, RegistrationsOf, serverVars
<1>5. QueryInv(c)'
  <2>1. CASE InQuery(c)
    BY <2>1, CollectReplyQuery DEF ClientInv, OrderInvOf
  <2>2. CASE ~ InQuery(c)
    BY <1>1, <2>2 DEF QueryInv, InQuery
  <2> QED
    BY <2>1, <2>2
<1>6. PutInv(c)'
  <2> SUFFICES ASSUME Phase[c] = SODAW_PUT_DATA PROVE PutInv(c)'
    BY <1>1 DEF PutInv
  <2>1. TagValue_var' = TagValue_var /\ Current(c)' = Current(c)
    BY <1>1 DEF Current
  <2>2. diskErrors' = diskErrors /\ \A q \in Servers : Stored(q)' = Stored(q)
    BY <1>1 DEF Stored, serverVars
  <2>3. PutInv(c)
    BY DEF ClientInv, OrderInvOf
  <2>4. ASSUME NEW q \in Servers, q \in responders'[c] \/ replies'[c][q] # <<>>
        PROVE  Holds(q, TagValue_var[c].Tag_var)'
    <3>1. q \in responders[c] \/ replies[c][q] # <<>>
      BY <1>1, <2>4
    <3> QED
      BY <1>1, <2>1, <2>2, <2>3, <3>1 DEF PutInv, Holds
  <2>5. /\ TagValue_var'[c].Tag_var \in Tag
        /\ \A q \in Servers : \A i \in Incarnations :
             \A m \in Messages(requests'[c][i][q]) \cap Current(c)' :
               m.TagValue_var.Tag_var = TagValue_var'[c].Tag_var
    BY <1>1, <2>1, <2>3 DEF PutInv
  <2> QED
    BY <2>4, <2>5 DEF PutInv
<1>7. DataInv(c)'
  BY <1>1 DEF DataInv
<1> QED
  BY <1>3, <1>4, <1>5, <1>6, <1>7 DEF ClientInv, OrderInvOf

\* No relay is older than what was asked for, unless a write of a file failed.
LEMMA RelayRecent ==
  ASSUME TypeOK, NEW r \in Clients, NEW s \in Servers, replies[r][s] # <<>>, r \in busy,
         Phase[r] = SODAW_GET_DATA, ClientInv(r)
  PROVE  LET tv == Head(replies[r][s]).TagValue_var IN
         /\ tv \in TagValue /\ tv.Tag_var \in Tag /\ tv.Tag_var \in AnyTag /\ Own(s, tv)
         /\ diskErrors = {} => ~ IsSmallerThan(tv.Tag_var, TagValue_var[r].Tag_var)
<1> DEFINE tv == Head(replies[r][s]).TagValue_var
<1>1. Head(replies[r][s]) \in Messages(replies[r][s]) /\ tv \in TagValue
  BY ReceiveType
<1>2. tv.Tag_var \in Tag /\ tv.Tag_var \in AnyTag
  BY <1>1, DataTypes DEF ClientInv, MessagesOf
<1>3. /\ diskErrors = {} => AtLeast(tv.Tag_var, TagValue_var[r].Tag_var)
      /\ Own(s, tv)
  BY <1>1 DEF ClientInv, OrderInvOf, DataInv
<1>4. TagValue_var[r].Tag_var \in AnyTag
  BY DataTypes DEF TypeOK
<1> QED
  BY <1>1, <1>2, <1>3, <1>4, TagComparisonsAgree DEF AtLeast

\* The elements a reader has, and one more from server s.
LEMMA AddElementOwn ==
  ASSUME NEW rx \in SUBSET TagValue, NEW tv \in TagValue, NEW s \in Servers,
         tv.Tag_var \in Tag, Own(s, tv),
         \A e \in rx : e.Tag_var \in Tag /\ Own(e.CodeIndex, e),
         \A e, f \in rx : e.Tag_var = f.Tag_var /\ e.CodeIndex = f.CodeIndex => e = f
  PROVE  /\ \A e \in AddElement(rx, tv) : e.Tag_var \in Tag /\ Own(e.CodeIndex, e)
         /\ \A e, f \in AddElement(rx, tv) :
              e.Tag_var = f.Tag_var /\ e.CodeIndex = f.CodeIndex => e = f
<1>1. Own(tv.CodeIndex, tv)
  BY DEF Own
<1> QED
  BY <1>1 DEF AddElement

LEMMA CollectRelayOrder ==
  ASSUME TypeOK, ServerInv, NEW r \in Clients, NEW s \in Servers, CollectRelay(r, s),
         ClientInv(r)
  PROVE  ClientInv(r)' /\ (NoOldElement => NoOldElement')
<1> DEFINE tv == Head(replies[r][s]).TagValue_var
           rx == AddElement(rx_state[r], tv)
<1>1. /\ r \in busy /\ Phase[r] = SODAW_GET_DATA /\ replies[r][s] # <<>>
      /\ UNCHANGED <<serverVars, Opnum, incarnation>>
      /\ \/ /\ busy' = busy \ {r}
            /\ EnterPhase(r, SODAW_READ_COMPLETE, TagOnly(LowestTag))
            /\ SendToServers(r, Opnum[r], SODAW_READ_COMPLETE, ToAll(TagOnly(ZeroTag)))
            /\ UNCHANGED processVars
         \/ /\ rx_state' = rx_state \/ rx_state' = [rx_state EXCEPT ![r] = rx]
            /\ replies' = [replies EXCEPT ![r][s] = Tail(replies[r][s])]
            /\ UNCHANGED <<busy, Phase, TagValue_var, responders, requests>>
            /\ \/ IsSmallerThan(tv.Tag_var, TagValue_var[r].Tag_var)
               \/ UNCHANGED processVars
  BY CollectRelayEffect DEF phaseVars
<1>2. /\ tv \in TagValue /\ tv.Tag_var \in Tag /\ tv.Tag_var \in AnyTag /\ Own(s, tv)
      /\ diskErrors = {} => ~ IsSmallerThan(tv.Tag_var, TagValue_var[r].Tag_var)
  BY <1>1, RelayRecent
<1>3. rx_state[r] \in SUBSET TagValue
  BY DEF TypeOK
<1>4. DataInv(r)
  BY DEF ClientInv, OrderInvOf
<1> HIDE DEF tv, rx
<1>5. CASE /\ busy' = busy \ {r}
           /\ EnterPhase(r, SODAW_READ_COMPLETE, TagOnly(LowestTag))
           /\ SendToServers(r, Opnum[r], SODAW_READ_COMPLETE, ToAll(TagOnly(ZeroTag)))
           /\ UNCHANGED processVars
  <2>1. /\ SODAW_READ_COMPLETE \in Phases /\ SODAW_READ_COMPLETE # SODAW_PUT_DATA
        /\ Opnum[r] \in Nat /\ TagOnly(ZeroTag) \in TagValue /\ TagOnly(ZeroTag).Tag_var \in Tag
    BY DataTypes DEF TypeOK, SODAW_READ_COMPLETE, SODAW_PUT_DATA
  <2>2. /\ ToAll(TagOnly(ZeroTag)) \in [Servers -> TagValue]
        /\ \A q \in Servers : ToAll(TagOnly(ZeroTag))[q].Tag_var \in Tag
    BY <2>1, ToAllType
  <2>3. \A q \in Servers : replies'[r][q] = <<>>
    BY <1>5, EnterPhaseEffect
  <2>4. MessagesOf(r)'
    BY <1>5, <2>1, <2>2, <2>3, BroadcastMessages DEF ClientInv
  <2> QED
    BY <1>1, <1>5, <2>4, ClientBetween DEF processVars, serverVars, NoOldElement,
       ReaderGetsRequestedTag
<1>6. CASE /\ rx_state' = rx_state \/ rx_state' = [rx_state EXCEPT ![r] = rx]
           /\ replies' = [replies EXCEPT ![r][s] = Tail(replies[r][s])]
           /\ UNCHANGED <<busy, Phase, TagValue_var, responders, requests>>
           /\ \/ IsSmallerThan(tv.Tag_var, TagValue_var[r].Tag_var)
              \/ UNCHANGED processVars
  <2>1. /\ rx_state'[r] = rx \/ rx_state'[r] = rx_state[r]
        /\ replies'[r][s] = Tail(replies[r][s])
        /\ \A q \in Servers : q # s => replies'[r][q] = replies[r][q]
    BY <1>6 DEF TypeOK
  <2>2. \A q \in Servers : Messages(replies'[r][q]) \subseteq Messages(replies[r][q])
    BY <1>1, <2>1, ReceiveType
  <2>3. MessagesOf(r)' /\ RegistrationsOf(r)'
    BY <1>1, <1>6, <2>2 DEF ClientInv, MessagesOf, RegistrationsOf, serverVars
  <2>4. QueryInv(r)' /\ PutInv(r)'
    BY <1>1, <1>6 DEF QueryInv, PutInv, InQuery, SODAW_GET_TAG, SODAW_FAST_GET_TAG_DATA,
                      SODAW_GET_DATA, SODAW_PUT_DATA
  <2>5. /\ \A e \in rx : e.Tag_var \in Tag /\ Own(e.CodeIndex, e)
        /\ \A e, f \in rx : e.Tag_var = f.Tag_var /\ e.CodeIndex = f.CodeIndex => e = f
    BY <1>1, <1>2, <1>3, <1>4, AddElementOwn DEF DataInv, rx
  <2>6. diskErrors' = diskErrors /\ \A q \in Servers : Stored(q)' = Stored(q)
    BY <1>1 DEF Stored, serverVars
  <2>7. ASSUME NEW q, NEW e, Own(q, e), q \in Servers PROVE Own(q, e)'
    BY <2>6, <2>7 DEF Own, Holds
  <2>14. /\ \A e \in rx_state'[r] : e.Tag_var \in Tag /\ Own(e.CodeIndex, e)
         /\ \A e, f \in rx_state'[r] :
              e.Tag_var = f.Tag_var /\ e.CodeIndex = f.CodeIndex => e = f
    BY <1>1, <1>4, <2>1, <2>5 DEF DataInv
  <2>8. \A e \in rx : e.CodeIndex \in Servers
    BY <1>2, <1>3, DataTypes DEF AddElement, rx
  <2>15. \A e \in rx_state'[r] : e.CodeIndex \in Servers
    BY <1>3, <2>1, <2>8, DataTypes
  <2>9. ASSUME NEW e \in rx_state'[r] PROVE e.Tag_var \in Tag /\ Own(e.CodeIndex, e)'
    BY <2>7, <2>14, <2>15
  <2>10. Current(r)' = Current(r) /\ TagValue_var' = TagValue_var
    BY <1>1, <1>6 DEF Current
  <2>11. ASSUME NEW q \in Servers, NEW m \in Messages(replies'[r][q])
         PROVE  /\ q \in diskErrors' \/ AtLeast(m.TagValue_var.Tag_var, TagValue_var'[r].Tag_var)
                /\ Own(q, m.TagValue_var)'
    <3>1. /\ q \in diskErrors \/ AtLeast(m.TagValue_var.Tag_var, TagValue_var[r].Tag_var)
          /\ Own(q, m.TagValue_var)
      BY <1>1, <1>4, <2>2 DEF DataInv
    <3>2. PICK x : x = m.TagValue_var
      OBVIOUS
    <3>3. Own(q, x)'
      BY <2>7, <3>1, <3>2
    <3> QED
      BY <2>6, <2>10, <3>1, <3>2, <3>3
  <2>12. /\ TagValue_var'[r].Tag_var \in Tag
         /\ \A q \in Servers : \A i \in Incarnations :
              \A m \in Messages(requests'[r][i][q]) \cap Current(r)' :
                m.TagValue_var.Tag_var = TagValue_var'[r].Tag_var
    BY <1>1, <1>4, <1>6, <2>10 DEF DataInv
  <2>13. DataInv(r)'
    BY <2>9, <2>11, <2>12, <2>14 DEF DataInv
  <2>16. NoOldElement => NoOldElement'
    BY <1>2, <1>6, <2>6 DEF NoOldElement, ReaderGetsRequestedTag, processVars
  <2> QED
    BY <2>3, <2>4, <2>13, <2>16 DEF ClientInv, OrderInvOf
<1> QED
  BY <1>1, <1>5, <1>6

-----------------------------------------------------------------------------
(* What was completed is held by K servers *)

LEMMA HoldersFinite ==
  ASSUME NEW t
  PROVE  Holders(t) \in SUBSET Servers /\ IsFiniteSet(Holders(t)) /\ Cardinality(Holders(t)) \in Nat
<1>1. Holders(t) \in SUBSET Servers
  BY DEF Holders
<1> QED
  BY <1>1, ServersAssumption, FS_Subset, FS_CardinalityType

LEMMA CompletedFrame ==
  ASSUME TypeOK, ServerInv, Forward, CompletedHeld, completed' = completed
  PROVE  CompletedHeld'
<1>1. PICK t \in AnyTag : t = completed
  BY DataTypes DEF TypeOK
<1>2. Holders(t) \subseteq Holders(t)'
  BY HoldersKeep
<1>3. Holders(t)' = Holders(completed)' /\ Holders(t) = Holders(completed)
  BY <1>1 DEF Holders
<1>4. Holders(completed)' \in SUBSET Servers
  BY DEF Holders
<1>5. /\ Cardinality(Holders(completed)') \in Nat
      /\ Cardinality(Holders(completed)) \in Nat
      /\ Cardinality(Holders(completed)) <= Cardinality(Holders(completed)')
  <2>1. IsFiniteSet(Holders(completed)') /\ Cardinality(Holders(completed)') \in Nat
    BY <1>4, ServersAssumption, FS_Subset, FS_CardinalityType
  <2> QED
    BY <1>2, <1>3, <2>1, FS_Subset, HoldersFinite
<1> QED
  BY <1>5, DataTypes DEF CompletedHeld

\* An operation ends with a tag that K servers hold.
LEMMA EndsHeld ==
  ASSUME TypeOK, UNCHANGED serverVars, CompletedHeld, NEW t \in AnyTag,
         Cardinality(Holders(t)) >= K, completed' = LargerTag(t, completed)
  PROVE  CompletedHeld'
<1>1. diskErrors' = diskErrors /\ \A s \in Servers : Stored(s)' = Stored(s)
  BY DEF Stored, serverVars
<1>2. completed' = t \/ completed' = completed
  BY DEF LargerTag
<1>3. Holders(completed)' = Holders(t) \/ Holders(completed)' = Holders(completed)
  BY <1>1, <1>2 DEF Holders, Holds
<1> QED
  BY <1>3 DEF CompletedHeld

\* The servers that were counted hold the tag of the phase that ends.
LEMMA RespondersHold ==
  ASSUME TypeOK, NEW c \in Clients, HasQuorum(c), ChannelInvOf(c), quorum_size(Phase[c]) = K,
         NEW t, \A s \in responders[c] : Holds(s, t)
  PROVE  Cardinality(Holders(t)) >= K
<1>1. Cardinality(responders[c]) = K
  BY DEF ChannelInvOf, Counted, HasQuorum
<1>2. responders[c] \subseteq Holders(t)
  BY DEF Holders, TypeOK
<1>3. Cardinality(responders[c]) <= Cardinality(Holders(t))
  BY <1>2, HoldersFinite, FS_Subset
<1> QED
  BY <1>1, <1>3, HoldersFinite, DataTypes

\* The elements that were decoded came from different servers that hold them, or
\* were there from the start.
LEMMA ElementsHeld ==
  ASSUME TypeOK, ServerInv, NEW rx \in SUBSET TagValue, NEW t,
         \A e \in rx : Own(e.CodeIndex, e),
         \A e, f \in rx : e.Tag_var = f.Tag_var /\ e.CodeIndex = f.CodeIndex => e = f,
         Cardinality(ElementsOf(rx, t)) = K
  PROVE  Cardinality(Holders(t)) >= K
<1> DEFINE E == ElementsOf(rx, t)
           f == [e \in E |-> e.CodeIndex]
<1>1. Cardinality(Holders(t)) \in Nat /\ IsFiniteSet(Holders(t)) /\ K \in Nat
  BY HoldersFinite, DataTypes
<1>2. CASE t = InitialTag
  <2>1. Holders(t) = Servers
    BY <1>2 DEF Holders, Holds, ServerInv, ServerInvOf
  <2>2. Cardinality(Servers) \in Nat
    BY ServersAssumption, FS_CardinalityType
  <2> QED
    BY <2>1, <2>2, KAssumption, DataTypes
<1>3. CASE t # InitialTag
  <2>1. \A e \in E : e \in rx /\ e.Tag_var = t /\ e.CodeIndex \in Servers
    BY DataTypes DEF ElementsOf
  <2>2. \A e \in E : e.CodeIndex \in Holders(t)
    BY <1>3, <2>1 DEF Own, Holders
  <2>3. \A e, g \in E : e.CodeIndex = g.CodeIndex => e = g
    BY <2>1
  <2> HIDE DEF E
  <2>4. f \in [E -> Holders(t)] /\ \A e, g \in E : f[e] = f[g] => e = g
    BY <2>2, <2>3
  <2> HIDE DEF f
  <2>5. f \in Injection(E, Holders(t))
    BY <2>4 DEF Injection, IsInjective
  <2>6. Cardinality(E) <= Cardinality(Holders(t))
    BY <1>1, <2>5, FS_Injection
  <2> QED
    BY <1>1, <2>6 DEF E
<1> QED
  BY <1>2, <1>3

LEMMA PutDataCompletesHeld ==
  ASSUME TypeOK, NEW w \in Clients, PutDataCompletes(w), ChannelInvOf(w), ClientInv(w),
         CompletedHeld
  PROVE  CompletedHeld'
<1> DEFINE t == TagValue_var[w].Tag_var
<1>1. /\ HasQuorum(w) /\ w \in busy /\ Phase[w] = SODAW_PUT_DATA
      /\ completed' = LargerTag(t, completed) /\ UNCHANGED serverVars
  BY PutDataCompletesEffect DEF HasQuorum
<1>2. quorum_size(Phase[w]) = K
  BY <1>1 DEF quorum_size, SODAW_PUT_DATA, SODAW_GET_TAG
<1>3. \A s \in responders[w] : Holds(s, t)
  BY <1>1 DEF ClientInv, OrderInvOf, PutInv, TypeOK
<1>4. Cardinality(Holders(t)) >= K
  BY <1>1, <1>2, <1>3, RespondersHold
<1>5. t \in AnyTag
  BY DataTypes DEF TypeOK
<1> QED
  BY <1>1, <1>4, <1>5, EndsHeld

LEMMA ReadInOnePhaseHeld ==
  ASSUME TypeOK, ServerInv, NEW r \in Clients, ReadInOnePhase(r), ChannelInvOf(r), ClientInv(r),
         CompletedHeld
  PROVE  CompletedHeld'
<1> DEFINE t == TagValue_var[r].Tag_var
<1>1. /\ HasQuorum(r) /\ r \in busy /\ Phase[r] = SODAW_FAST_GET_TAG_DATA /\ IsOnePhase[r]
      /\ UNCHANGED serverVars
      /\ completed' = completed \/ completed' = LargerTag(t, completed)
  BY ReadInOnePhaseEffect DEF HasQuorum, historyVars
<1>2. quorum_size(Phase[r]) = K
  BY <1>1 DEF quorum_size, SODAW_FAST_GET_TAG_DATA, SODAW_PUT_DATA, SODAW_GET_TAG
<1>3. \A s \in responders[r] : Holds(s, t)
  BY <1>1 DEF ClientInv, OrderInvOf, QueryInv, AnswerStored, InQuery, TypeOK
<1>4. Cardinality(Holders(t)) >= K
  BY <1>1, <1>2, <1>3, RespondersHold
<1>5. t \in AnyTag
  BY DataTypes DEF TypeOK
<1>6. CASE completed' = completed
  BY <1>1, <1>6, StillForward, CompletedFrame
<1> QED
  BY <1>1, <1>4, <1>5, <1>6, EndsHeld

LEMMA CollectRelayHeld ==
  ASSUME TypeOK, ServerInv, NEW r \in Clients, NEW s \in Servers, CollectRelay(r, s),
         ClientInv(r), CompletedHeld
  PROVE  CompletedHeld'
<1> DEFINE tv == Head(replies[r][s]).TagValue_var
           rx == AddElement(rx_state[r], tv)
<1>1. /\ r \in busy /\ Phase[r] = SODAW_GET_DATA /\ replies[r][s] # <<>>
      /\ UNCHANGED serverVars
      /\ \/ completed' = completed
         \/ /\ Cardinality(ElementsOf(rx, tv.Tag_var)) = K
            /\ completed' = LargerTag(tv.Tag_var, completed)
  BY CollectRelayEffect DEF historyVars
<1>2. tv \in TagValue /\ tv.Tag_var \in Tag /\ tv.Tag_var \in AnyTag /\ Own(s, tv)
  BY <1>1, RelayRecent
<1>3. rx_state[r] \in SUBSET TagValue /\ DataInv(r)
  BY DEF TypeOK, ClientInv, OrderInvOf
<1>4. CASE completed' = completed
  BY <1>1, <1>4, StillForward, CompletedFrame
<1> HIDE DEF tv, rx
<1>5. CASE /\ Cardinality(ElementsOf(rx, tv.Tag_var)) = K
           /\ completed' = LargerTag(tv.Tag_var, completed)
  <2>1. /\ \A e \in rx : e.Tag_var \in Tag /\ Own(e.CodeIndex, e)
        /\ \A e, f \in rx : e.Tag_var = f.Tag_var /\ e.CodeIndex = f.CodeIndex => e = f
    BY <1>1, <1>2, <1>3, AddElementOwn DEF DataInv, rx
  <2>2. rx \in SUBSET TagValue
    BY <1>2, <1>3 DEF AddElement, rx
  <2>3. Cardinality(Holders(tv.Tag_var)) >= K
    BY <1>5, <2>1, <2>2, ElementsHeld
  <2> QED
    BY <1>1, <1>2, <1>5, <2>3, EndsHeld
<1> QED
  BY <1>1, <1>4, <1>5

-----------------------------------------------------------------------------
(* Every step *)

LEMMA KillShrinks ==
  ASSUME TypeOK, NEW c \in Clients, KillClient(c), NEW d \in Clients
  PROVE  RequestsShrink(d)
<1> SUFFICES ASSUME NEW i \in Incarnations, NEW s \in Servers
             PROVE  Shrinks(requests'[d][i][s], requests[d][i][s])
  BY DEF RequestsShrink
<1>1. \A e \in Clients, j \in Incarnations, t \in Servers :
        \/ requests'[e][j][t] = requests[e][j][t]
        \/ /\ e = c /\ j = incarnation[c] /\ requests[e][j][t] # <<>>
           /\ requests[e][j][t] \in Seq(Message)
           /\ requests'[e][j][t] = Front(requests[e][j][t])
  BY KillEffect
<1>2. CASE requests'[d][i][s] = requests[d][i][s]
  BY <1>2, SameShrinks
<1>3. CASE /\ requests[d][i][s] # <<>> /\ requests[d][i][s] \in Seq(Message)
           /\ requests'[d][i][s] = Front(requests[d][i][s])
  BY <1>3, FrontMessages DEF Shrinks
<1> QED
  BY <1>1, <1>2, <1>3

\* What a step of client c keeps.
ClientKeeps(c) ==
  /\ UNCHANGED serverVars /\ CompletedHeld' /\ (NoOldElement => NoOldElement')
  /\ \A d \in Clients : ClientInv(d)'

LEMMA ClientStepKeeps ==
  ASSUME TypeOK, ChannelInv, ServerInv, OrderInv, NEW c \in Clients, ClientStep(c)
  PROVE  ClientKeeps(c)
<1>1. /\ \A d \in Clients : ChannelInvOf(d) /\ ClientInv(d)
      /\ CompletedHeld
  BY OrderIsClients DEF ChannelInv, OrderInv
<1>2. ASSUME UNCHANGED serverVars, \A d \in Clients : d # c => Idle(d), ClientInv(c)',
             CompletedHeld' \/ completed' = completed, NoOldElement => NoOldElement'
      PROVE  ClientKeeps(c)
  <2>1. \A d \in Clients : ClientInv(d)'
    BY <1>1, <1>2, ClientIdle
  <2>2. CompletedHeld'
    BY <1>1, <1>2, StillForward, CompletedFrame
  <2> QED
    BY <1>2, <2>1, <2>2 DEF ClientKeeps
<1>3. CASE StartRead(c) \/ StartWrite(c)
  <2>1. PICK phase \in {SODAW_GET_TAG, SODAW_FAST_GET_TAG_DATA} : StartOperation(c, phase)
    BY <1>3 DEF StartRead, StartWrite
  <2>2. phase \in Phases
    BY DataTypes
  <2>3. /\ UNCHANGED <<serverVars, processVars, completed>>
        /\ \A d \in Clients : d # c => Idle(d)
    BY <2>1, <2>2, StartOperationEffect
  <2>4. ClientInv(c)'
    BY <1>1, <2>1, StartOperationOrder
  <2> QED
    BY <1>2, <2>3, <2>4 DEF NoOldElement, ReaderGetsRequestedTag, serverVars, processVars
<1>4. ASSUME NEW s \in Servers, CollectReply(c, s) PROVE ClientKeeps(c)
  <2>1. /\ UNCHANGED <<serverVars, processVars, historyVars>>
        /\ \A d \in Clients : d # c => Idle(d)
    BY <1>4, CollectReplyEffect
  <2>2. ClientInv(c)'
    BY <1>1, <1>4, CollectReplyOrder
  <2> QED
    BY <1>2, <2>1, <2>2 DEF NoOldElement, ReaderGetsRequestedTag,
       serverVars, processVars, historyVars
<1>5. ASSUME NEW s \in Servers, CollectRelay(c, s) PROVE ClientKeeps(c)
  <2>1. /\ UNCHANGED serverVars /\ \A d \in Clients : d # c => Idle(d)
    BY <1>5, CollectRelayEffect
  <2>2. ClientInv(c)' /\ (NoOldElement => NoOldElement') /\ CompletedHeld'
    BY <1>1, <1>5, CollectRelayOrder, CollectRelayHeld
  <2> QED
    BY <1>2, <2>1, <2>2
<1>6. CASE WriterPutsData(c)
  <2>1. /\ UNCHANGED <<serverVars, processVars, historyVars>>
        /\ \A d \in Clients : d # c => Idle(d)
    BY <1>6, WriterPutsDataEffect
  <2>2. ClientInv(c)'
    BY <1>1, <1>6, WriterPutsDataOrder
  <2> QED
    BY <1>2, <2>1, <2>2 DEF NoOldElement, ReaderGetsRequestedTag,
       serverVars, processVars, historyVars
<1>7. CASE PutDataCompletes(c)
  <2>1. /\ busy' = busy \ {c} /\ EnterPhase(c, SODAW_PUT_DATA, TagOnly(LowestTag))
        /\ UNCHANGED <<serverVars, processVars, Opnum, requests>>
        /\ \A d \in Clients : d # c => Idle(d)
    BY <1>7, PutDataCompletesEffect
  <2>2. \A s \in Servers : replies'[c][s] = <<>>
    BY <2>1, EnterPhaseEffect
  <2>3. MessagesOf(c)'
    BY <1>1, <2>1, <2>2, EmptyMessages DEF ClientInv, MessagesOf
  <2>4. ClientInv(c)'
    BY <1>1, <2>1, <2>3, ClientBetween
  <2>5. CompletedHeld'
    BY <1>1, <1>7, PutDataCompletesHeld
  <2> QED
    BY <1>2, <2>1, <2>4, <2>5 DEF NoOldElement, ReaderGetsRequestedTag, serverVars, processVars
<1>8. CASE ReaderAsksForData(c)
  <2>1. /\ UNCHANGED <<serverVars, processVars, historyVars>>
        /\ \A d \in Clients : d # c => Idle(d)
    BY <1>8, ReaderAsksForDataEffect
  <2>2. ClientInv(c)'
    BY <1>1, <1>8, ReaderAsksForDataOrder
  <2> QED
    BY <1>2, <2>1, <2>2 DEF NoOldElement, ReaderGetsRequestedTag,
       serverVars, processVars, historyVars
<1>9. CASE ReadInOnePhase(c)
  <2>1. /\ UNCHANGED <<serverVars, Opnum, requests>>
        /\ \/ /\ busy' = busy \ {c}
              /\ EnterPhase(c, SODAW_FAST_GET_TAG_DATA, TagOnly(LowestTag))
              /\ UNCHANGED processVars
           \/ Idle(c) /\ panics' = panics \cup {"exactly K coded blocks"}
        /\ \A d \in Clients : d # c => Idle(d)
    BY <1>9, ReadInOnePhaseEffect
  <2>2. CompletedHeld'
    BY <1>1, <1>9, ReadInOnePhaseHeld
  <2>3. CASE Idle(c) /\ panics' = panics \cup {"exactly K coded blocks"}
    <3>1. ClientInv(c)'
      BY <1>1, <2>1, <2>3, ClientIdle
    <3> QED
      BY <1>2, <2>1, <2>2, <2>3, <3>1 DEF NoOldElement, ReaderGetsRequestedTag, serverVars
  <2>4. CASE /\ busy' = busy \ {c}
             /\ EnterPhase(c, SODAW_FAST_GET_TAG_DATA, TagOnly(LowestTag))
             /\ UNCHANGED processVars
    <3>1. \A s \in Servers : replies'[c][s] = <<>>
      BY <2>4, EnterPhaseEffect
    <3>2. MessagesOf(c)'
      BY <1>1, <2>1, <3>1, EmptyMessages DEF ClientInv, MessagesOf
    <3>3. ClientInv(c)'
      BY <1>1, <2>1, <2>4, <3>2, ClientBetween
    <3> QED
      BY <1>2, <2>1, <2>2, <2>4, <3>3 DEF NoOldElement, ReaderGetsRequestedTag,
         serverVars, processVars
  <2> QED
    BY <2>1, <2>3, <2>4
<1>10. CASE emulateNewClient(c)
  <2>1. /\ c \notin busy
        /\ UNCHANGED <<serverVars, processVars, busy, Opnum, phaseVars, netVars, historyVars>>
        /\ \A d \in Clients : d # c => Idle(d)
    BY <1>10, EmulateEffect
  <2>2. MessagesOf(c)'
    BY <1>1, <2>1 DEF ClientInv, MessagesOf, netVars
  <2>3. ClientInv(c)'
    BY <1>1, <2>1, <2>2, ClientBetween
  <2> QED
    BY <1>2, <2>1, <2>3 DEF NoOldElement, ReaderGetsRequestedTag,
       serverVars, processVars, historyVars
<1>11. CASE KillClient(c)
  <2>1. /\ UNCHANGED <<serverVars, panics, historyVars>> /\ replies' = replies
        /\ \A d \in Clients : SameClient(d) /\ (d # c => Idle(d))
    BY <1>11, KillClientEffect
  <2>2. ClientInv(c)'
    BY <1>1, <1>11, <2>1, KillShrinks, ClientFrame
  <2> QED
    BY <1>2, <2>1, <2>2 DEF NoOldElement, ReaderGetsRequestedTag, serverVars, historyVars
<1> QED
  BY <1>3, <1>4, <1>5, <1>6, <1>7, <1>8, <1>9, <1>10, <1>11 DEF ClientStep

-----------------------------------------------------------------------------
(* The invariant, whole *)

LEMMA ServerStepKeeps ==
  ASSUME TypeOK, TypeOK', ChannelInv, ServerInv, OrderInv,
         NEW s \in Servers, NEW c \in Clients, NEW i \in Incarnations, ServerStep(s, c, i)
  PROVE  ServerInv' /\ OrderInv'
<1>1. ServerInv' /\ Forward
  BY ServerMoves DEF OrderInv
<1>2. RegistrationInv'
  BY ServerStepRegistrations
<1>3. MessagesInv'
  <2>1. ASSUME NEW d \in Clients, NEW t \in Servers, NEW j \in Incarnations,
               NEW m \in Messages(requests'[d][j][t])
        PROVE  /\ m.TagValue_var.Tag_var \in Tag
               /\ m.Phase = SODAW_PUT_DATA => m.TagValue_var.CodeIndex = t
    <3>1. RequestsShrink(d)
      BY ServerStepEffect
    <3>2. m \in Messages(requests[d][j][t])
      BY <2>1, <3>1 DEF RequestsShrink, Shrinks
    <3> QED
      BY <3>2 DEF OrderInv, MessagesInv
  <2>2. \A d \in Clients, t \in Servers : \A m \in Messages(replies'[d][t]) :
          m.TagValue_var.Tag_var \in Tag
    BY <1>1, ServerStepOrder
  <2> QED
    BY <2>1, <2>2 DEF MessagesInv
<1>4. CompletedHeld'
  <2>1. completed' = completed
    BY DEF ServerStep, historyVars
  <2> QED
    BY <1>1, <2>1, CompletedFrame DEF OrderInv
<1>5. NoOldElement'
  BY StepHandled DEF Handled, OrderInv, NoOldElement, ReaderGetsRequestedTag
<1>6. \A d \in Clients : OrderInvOf(d)'
  BY <1>1, ServerStepOrder
<1> QED
  BY <1>1, <1>2, <1>3, <1>4, <1>5, <1>6 DEF OrderInv

\* No client steps, and neither does what servers store.
LEMMA IdleKeeps ==
  ASSUME TypeOK, TypeOK', ServerInv, OrderInv, UNCHANGED <<serverVars, panics, completed>>,
         \A d \in Clients : Idle(d)
  PROVE  ServerInv' /\ OrderInv'
<1>1. ServerInv' /\ Forward
  BY StillForward
<1>2. \A d \in Clients : ClientInv(d)'
  BY ClientIdle, OrderIsClients
<1>3. CompletedHeld'
  BY <1>1, CompletedFrame DEF OrderInv
<1>4. NoOldElement'
  BY DEF OrderInv, NoOldElement, ReaderGetsRequestedTag, serverVars
<1> QED
  BY <1>1, <1>2, <1>3, <1>4, ClientsAreOrder

LEMMA OrderStep ==
  ASSUME TypeOK, TypeOK', ChannelInv, ServerInv, OrderInv, [Next]_vars
  PROVE  ServerInv' /\ OrderInv'
<1>1. CASE UNCHANGED vars
  <2>1. /\ UNCHANGED <<serverVars, panics, completed>>
        /\ \A d \in Clients : Idle(d)
    BY <1>1 DEF vars, serverVars, processVars, phaseVars, netVars, historyVars, Idle, SameClient
  <2> QED
    BY <2>1, IdleKeeps
<1>2. ASSUME NEW c \in Clients, ClientStep(c) PROVE ServerInv' /\ OrderInv'
  <2>1. ClientKeeps(c)
    BY <1>2, ClientStepKeeps
  <2>2. ServerInv'
    BY <2>1, StillForward DEF ClientKeeps
  <2>3. OrderInv'
    BY <2>1, ClientsAreOrder DEF ClientKeeps, OrderInv
  <2> QED
    BY <2>2, <2>3
<1>3. ASSUME NEW s \in Servers, NEW c \in Clients, NEW i \in Incarnations,
             ServerStep(s, c, i)
      PROVE  ServerInv' /\ OrderInv'
  BY <1>3, ServerStepKeeps
<1>4. ASSUME NEW s \in Servers, KillServer(s) PROVE ServerInv' /\ OrderInv'
  <2>1. /\ UNCHANGED <<serverVars, panics, completed>>
        /\ \A d \in Clients : Idle(d)
    BY <1>4, KillServerEffect DEF historyVars
  <2> QED
    BY <2>1, IdleKeeps
<1> QED
  BY <1>1, <1>2, <1>3, <1>4 DEF Next, AllDone

LEMMA OrderInit == Init => ServerInv /\ OrderInv
<1> SUFFICES ASSUME Init PROVE ServerInv /\ OrderInv
  OBVIOUS
<1>1. \A s \in Servers : Stored(s) = InitialTag /\ disk[s].Tag_var = LowestTag
  BY DEF Init, Stored, TagOnly
<1>2. InitialTag \in Tag /\ AtLeast(InitialTag, InitialTag)
  BY DataTypes, TagTotal
<1>3. ServerInv
  BY <1>1, <1>2 DEF ServerInv, ServerInvOf
<1>4. CompletedHeld
  <2>1. Holders(completed) = Servers
    BY <1>1, <1>2 DEF Holders, Holds, Init
  <2> QED
    BY <2>1, KAssumption DEF CompletedHeld
<1>5. \A c \in Clients : OrderInvOf(c)
  BY DEF Init, OrderInvOf, QueryInv, InQuery, PutInv, DataInv
<1>6. RegistrationInv
  BY DEF Init, RegistrationInv
<1>7. MessagesInv
  BY EmptyMessages DEF Init, MessagesInv
<1>8. NoOldElement
  BY DEF Init, NoOldElement, ReaderGetsRequestedTag
<1> QED
  BY <1>3, <1>4, <1>5, <1>6, <1>7, <1>8 DEF OrderInv

\* The inductive invariant: what is in the channels and at the servers orders the
\* operations, with an exception for the servers a write of whose file failed
\* (soda_variations.go 355-424).
THEOREM ElementsAreOrdered == Spec => []IInv
<1>1. Init => IInv
  BY TypeInit, ChannelInit, OrderInit DEF IInv
<1>2. IInv /\ [Next]_vars => IInv'
  BY TypeStep, ChannelStep, OrderStep DEF IInv
<1> QED
  BY <1>1, <1>2, PTL DEF Spec

\* Whatever is lost, delayed or killed, and whichever disks fail, K servers hold the
\* tag of every operation that ended, or had a failing disk; a read's tag too,
\* although it writes nothing back (getDataSodaw 110-175, putDataSodaw 184-196).
THEOREM CompletedStored == Spec => []CompletedIsStored
<1>1. IInv => CompletedIsStored
  <2> SUFFICES ASSUME IInv PROVE CompletedIsStored
    OBVIOUS
  <2>1. Holders(completed) = {s \in Servers :
          s \in diskErrors \/ AtLeast(tagCodedElement_var[s].Tag_var, completed)}
    BY DEF Holders, Holds, Stored
  <2>2. Cardinality(Holders(completed)) >= K
    BY DEF IInv, OrderInv, CompletedHeld
  <2> QED
    BY <2>1, <2>2 DEF CompletedIsStored
<1> QED
  BY <1>1, ElementsAreOrdered, PTL

\* With no error allowed there is none.
LEMMA NoDiskErrors ==
  ASSUME NoFailedWrite, TypeOK
  PROVE  diskErrors = {}
<1>1. diskErrors \subseteq Servers /\ Cardinality(diskErrors) <= 0
  BY DEF TypeOK, NoFailedWrite
<1>2. IsFiniteSet(diskErrors) /\ Cardinality(diskErrors) \in Nat
  BY <1>1, ServersAssumption, FS_Subset, FS_CardinalityType
<1>3. Cardinality(diskErrors) = 0
  BY <1>1, <1>2
<1> QED
  BY <1>2, <1>3, FS_EmptySet

\* No relay, however late, and no file gives a read an element older than the tag
\* it asked for (the os.Exit(9) of getDataSodaw 141-146).
THEOREM RequestedTagIsServed == ASSUME NoFailedWrite PROVE Spec => []ReaderGetsRequestedTag
<1>1. IInv => ReaderGetsRequestedTag
  BY NoDiskErrors DEF IInv, OrderInv, NoOldElement
<1> QED
  BY <1>1, ElementsAreOrdered, PTL

-----------------------------------------------------------------------------
(* Reads of written objects *)

LEMMA AboveKeeps ==
  ASSUME NEW t \in AnyTag, NEW u \in AnyTag, AtLeast(t, u), AboveInitial(u)
  PROVE  AboveInitial(t)
BY TagTransitive, InitialTagIsTag DEF AboveInitial

\* The replies to a reader in its single phase stay elements of their servers.
LEMMA OnePhaseFrame ==
  ASSUME TypeOK, ServerInv, Forward, NEW d \in Clients, SameClient(d), OnePhaseInv(d),
         \A s \in Servers : \A m \in Messages(replies'[d][s]) :
           \/ m \in Messages(replies[d][s])
           \/ Phase[d] = SODAW_FAST_GET_TAG_DATA /\ ~ UseDisk => Own(s, m.TagValue_var)'
  PROVE  OnePhaseInv(d)'
<1>1. ASSUME InQuery(d), Phase[d] = SODAW_FAST_GET_TAG_DATA, ~ UseDisk,
             NEW s \in Servers, NEW m \in Messages(replies'[d][s])
      PROVE  Own(s, m.TagValue_var)'
  <2>1. CASE m \in Messages(replies[d][s])
    <3>1. Own(s, m.TagValue_var)
      BY <1>1, <2>1 DEF OnePhaseInv
    <3>2. PICK tv \in TagValue : tv = m.TagValue_var
      BY <2>1, ReplyTags
    <3>3. Own(s, tv)'
      BY <3>1, <3>2, OwnKeeps
    <3> QED
      BY <3>2, <3>3
  <2> QED
    BY <1>1, <2>1
<1>2. /\ InQuery(d)' <=> InQuery(d)
      /\ Phase'[d] = Phase[d] /\ TagValue_var'[d] = TagValue_var[d]
      /\ IsOnePhase'[d] = IsOnePhase[d]
      /\ rx_state'[d] = rx_state[d] /\ responders'[d] = responders[d]
  BY DEF SameClient, InQuery
<1> QED
  BY <1>1, <1>2 DEF OnePhaseInv

LEMMA WrittenFrame ==
  ASSUME TypeOK, ServerInv, Forward, NEW d \in Clients, SameClient(d), RequestsShrink(d),
         WrittenOf(d), OnePhaseInv(d)'
  PROVE  WrittenOf(d)'
<1>1. \A i \in Incarnations, s \in Servers : \A m \in Messages(requests'[d][i][s]) :
        m.Phase = SODAW_GET_DATA => AboveInitial(m.TagValue_var.Tag_var)
  BY DEF RequestsShrink, Shrinks, WrittenOf
<1> QED
  BY <1>1 DEF WrittenOf, SameClient, AboveInitial

LEMMA WrittenIdle ==
  ASSUME TypeOK, ServerInv, Forward, NEW d \in Clients, Idle(d), WrittenOf(d)
  PROVE  WrittenOf(d)'
<1>1. SameClient(d) /\ RequestsShrink(d) /\ \A s \in Servers : replies'[d][s] = replies[d][s]
  BY SameShrinks DEF Idle, RequestsShrink
<1>2. OnePhaseInv(d)'
  BY <1>1, OnePhaseFrame DEF WrittenOf
<1> QED
  BY <1>1, <1>2, WrittenFrame

\* A client between two operations.
LEMMA WrittenBetween ==
  ASSUME NEW c \in Clients, c \notin busy', WrittenOf(c),
         \A i \in Incarnations, s \in Servers : \A m \in Messages(requests'[c][i][s]) :
           m \in Messages(requests[c][i][s]) \/ m.Phase # SODAW_GET_DATA
  PROVE  WrittenOf(c)'
<1>1. \A i \in Incarnations, s \in Servers : \A m \in Messages(requests'[c][i][s]) :
        m.Phase = SODAW_GET_DATA => AboveInitial(m.TagValue_var.Tag_var)
  BY DEF WrittenOf
<1> QED
  BY <1>1 DEF WrittenOf, OnePhaseInv, InQuery, AboveInitial

LEMMA ServerStepWritten ==
  ASSUME TypeOK, ServerInv, ServerInv', Forward, OrderInv, NEW s \in Servers,
         NEW c \in Clients, NEW i \in Incarnations, ServerStep(s, c, i), NEW d \in Clients,
         WrittenOf(d)
  PROVE  WrittenOf(d)'
<1>1. SameClient(d) /\ RequestsShrink(d)
  BY ServerStepEffect
<1>2. \A t \in Servers : t # s => replies'[d][t] = replies[d][t]
  BY StepHandled DEF Handled, AnswersSent
<1>3. CASE replies'[d][s] = replies[d][s]
  <2>1. OnePhaseInv(d)'
    BY <1>1, <1>2, <1>3, OnePhaseFrame DEF WrittenOf
  <2> QED
    BY <1>1, <2>1, WrittenFrame
<1>4. CASE replies'[d][s] # replies[d][s]
  <2>1. PICK a \in Message : Answer(d, s, a)
    BY <1>4, StepAnswers
  <2>2. Answered(d, s, a)
    BY <1>1, <1>2, <2>1 DEF Answered
  <2>3. ASSUME Phase[d] = SODAW_FAST_GET_TAG_DATA, ~ UseDisk
        PROVE  Own(s, a.TagValue_var)'
    <3>1. a.TagValue_var = tagCodedElement_var[s]
      BY <2>1, <2>3 DEF Answer, SODAW_FAST_GET_TAG_DATA, SODAW_GET_DATA, SODAW_PUT_DATA
    <3>2. PICK tv \in TagValue : tv = tagCodedElement_var[s]
      BY DEF TypeOK
    <3>3. tv.Tag_var = Stored(s) /\ (Stored(s) = InitialTag \/ tv.CodeIndex = s)
      BY <2>3, <3>2 DEF ServerInv, ServerInvOf, Stored
    <3>4. Own(s, tv)
      BY <3>3, StoredTypes, TagTotal DEF Own, Holds
    <3>5. Own(s, tv)'
      BY <3>4, OwnKeeps
    <3> QED
      BY <3>1, <3>2, <3>5
  <2>4. \A t \in Servers : \A m \in Messages(replies'[d][t]) :
          m \in Messages(replies[d][t]) \/ (m = a /\ t = s)
    BY <2>2, AnsweredMessages
  <2>5. OnePhaseInv(d)'
    BY <1>1, <2>3, <2>4, OnePhaseFrame DEF WrittenOf
  <2> QED
    BY <1>1, <2>5, WrittenFrame
<1> QED
  BY <1>3, <1>4

\* Asked for a tag above the initial one, a server without a file does not answer.
LEMMA ServerStepFiles ==
  ASSUME NoFailedWrite, TypeOK, ServerInv, MessagesInv, NEW s \in Servers, NEW c \in Clients,
         NEW i \in Incarnations, ServerStep(s, c, i), WrittenOf(c)
  PROVE  panics' = panics
<1> DEFINE m == Head(requests[c][i][s])
<1>1. m \in Messages(requests[c][i][s])
  BY TakenMessage
<1>2. m.TagValue_var.Tag_var \in AnyTag
  BY <1>1, RequestTags
<1>3. m.Phase = SODAW_GET_DATA => AboveInitial(m.TagValue_var.Tag_var)
  BY <1>1 DEF WrittenOf
<1>4. \/ getTagResp(s, c, i, m) \/ getDataResp(s, c, i, m)
      \/ readCompleteResp(s, c, i, m) \/ putDataResp(s, c, i, m)
  BY DEF ServerStep
<1> HIDE DEF m
<1>5. CASE getDataResp(s, c, i, m)
  <2>1. ASSUME UseDisk, disk[s].Tag_var = LowestTag
        PROVE  ~ AnswersNow(s, m.TagValue_var.Tag_var)
    <3>1. Stored(s) = InitialTag
      BY <2>1, NoDiskErrors DEF ServerInv, ServerInvOf, Tag, LowestTag
    <3>2. isGreaterTag(m.TagValue_var.Tag_var, Stored(s))
      BY <1>3, <1>5, <3>1 DEF getDataResp, AboveInitial
    <3> QED
      BY <1>2, <3>2, StoredTypes, TagComparisonsAgree DEF AnswersNow, Stored
  <2> QED
    BY <1>5, <2>1 DEF getDataResp, processVars
<1> QED
  BY <1>4, <1>5 DEF getTagResp, readCompleteResp, putDataResp, processVars

LEMMA StartOperationWritten ==
  ASSUME TypeOK, NEW c \in Clients, NEW phase \in {SODAW_GET_TAG, SODAW_FAST_GET_TAG_DATA},
         StartOperation(c, phase), phase = SODAW_FAST_GET_TAG_DATA => Fast /\ c \in Readers,
         c \in Readers => completed # InitialTag, AtLeast(completed, InitialTag), WrittenOf(c)
  PROVE  WrittenOf(c)'
<1>1. /\ phase \in Phases /\ phase # SODAW_GET_DATA /\ Opnum[c] + 1 \in Nat
      /\ ToAll(TagOnly(ZeroTag)) \in [Servers -> TagValue]
  <2>1. TagOnly(ZeroTag) \in TagValue
    BY DataTypes
  <2> QED
    BY <2>1, DataTypes, ToAllType
    DEF TypeOK, SODAW_GET_TAG, SODAW_FAST_GET_TAG_DATA, SODAW_GET_DATA
<1>2. /\ floor'[c] = completed /\ EnterPhase(c, phase, TagOnly(LowestTag))
      /\ SendToServers(c, Opnum[c] + 1, phase, ToAll(TagOnly(ZeroTag)))
  BY <1>1, StartOperationEffect
<1>3. /\ Phase'[c] = phase /\ responders'[c] = {} /\ rx_state'[c] = {}
      /\ \A s \in Servers : replies'[c][s] = <<>>
  BY <1>2, EnterPhaseEffect
<1>4. c \in Readers => AboveInitial(floor'[c])
  <2>1. completed \in AnyTag /\ InitialTag \in AnyTag
    BY DataTypes DEF TypeOK
  <2>2. c \in Readers => isGreaterTag(completed, InitialTag)
    BY <2>1, TagTotal
  <2> QED
    BY <1>2, <2>2 DEF AboveInitial
<1>5. \A i \in Incarnations, s \in Servers : \A m \in Messages(requests'[c][i][s]) :
        m.Phase = SODAW_GET_DATA => AboveInitial(m.TagValue_var.Tag_var)
  <2>1. \A i \in Incarnations, s \in Servers : \A m \in Messages(requests'[c][i][s]) :
          m \in Messages(requests[c][i][s]) \/ m.Phase = phase
    BY <1>1, <1>2, Broadcast
  <2> QED
    BY <1>1, <2>1 DEF WrittenOf
<1>6. OnePhaseInv(c)'
  <2>1. {e.CodeIndex : e \in rx_state'[c]} = {}
    BY <1>3
  <2> QED
    BY <1>3, <2>1, EmptyMessages DEF OnePhaseInv
<1> QED
  BY <1>1, <1>3, <1>4, <1>5, <1>6 DEF WrittenOf, AboveInitial

\* A query ends with a tag no older than its floor.
LEMMA QuorumFloor ==
  ASSUME NoFailedWrite, TypeOK, NEW c \in Clients, ChannelInvOf(c), QueryInv(c), HasQuorum(c), InQuery(c)
  PROVE  AtLeast(TagValue_var[c].Tag_var, floor[c])
<1>1. PICK Q \in SUBSET Servers :
        Cardinality(Q) >= majority /\ \A q \in Q : FloorAnswered(c, q)
  BY NoDiskErrors DEF QueryInv
<1>2. Cardinality(responders[c]) >= majority
  <2>1. quorum_size(Phase[c]) >= majority
    BY DataTypes DEF InQuery, quorum_size
  <2> QED
    BY <2>1, QuorumTag
<1>3. responders[c] \subseteq Servers
  BY DEF TypeOK
<1>4. PICK q \in responders[c] : q \in Q
  BY <1>1, <1>2, <1>3, ServersAssumption, MajoritiesIntersect DEF majority
<1> QED
  BY <1>1, <1>4 DEF FloorAnswered

\* The K answers of a single phase are K elements.
LEMMA OnePhaseElements ==
  ASSUME NoFailedWrite, TypeOK, NEW r \in Clients, ChannelInvOf(r), QueryInv(r), WrittenOf(r), HasQuorum(r),
         Phase[r] = SODAW_FAST_GET_TAG_DATA, IsOnePhase[r], ~ UseDisk
  PROVE  Cardinality(rx_state[r]) = K
<1> DEFINE rx == rx_state[r]
           R == responders[r]
           f == [e \in rx |-> e.CodeIndex]
<1>1. r \in busy /\ InQuery(r) /\ r \in Readers
  BY DEF HasQuorum, InQuery, WrittenOf, OnePhaseInv
<1>2. Cardinality(R) = K
  BY <1>1, QuorumTag DEF quorum_size, SODAW_FAST_GET_TAG_DATA, SODAW_PUT_DATA, SODAW_GET_TAG
<1>3. TagValue_var[r].Tag_var # InitialTag
  <2>1. TagValue_var[r].Tag_var \in AnyTag /\ floor[r] \in AnyTag
    BY DataTypes DEF TypeOK
  <2>2. AboveInitial(TagValue_var[r].Tag_var)
    BY <1>1, <2>1, QuorumFloor, AboveKeeps DEF WrittenOf
  <2> QED
    BY <2>1, <2>2, InitialTagIsTag, TagTotal DEF AboveInitial
<1>4. /\ \A e, g \in rx : e.CodeIndex = g.CodeIndex => e = g
      /\ {e.CodeIndex : e \in rx} = R
  BY <1>1, <1>3 DEF WrittenOf, OnePhaseInv
<1>5. IsFiniteSet(R)
  BY ServersAssumption, FS_Subset DEF TypeOK
<1> HIDE DEF rx, R
<1>6. /\ f \in [rx -> R] /\ \A e, g \in rx : f[e] = f[g] => e = g
      /\ \A q \in R : \E e \in rx : f[e] = q
  BY <1>4
<1> HIDE DEF f
<1>7. f \in Injection(rx, R) /\ f \in Surjection(rx, R)
  BY <1>6 DEF Injection, IsInjective, Surjection
<1>8. Cardinality(rx) = Cardinality(R)
  BY <1>5, <1>7, FS_Injection
<1> QED
  BY <1>2, <1>8 DEF rx, R

\* A reply of a single phase brings the element of one more server.
LEMMA CollectReplyWritten ==
  ASSUME TypeOK, ServerInv, NEW c \in Clients, NEW s \in Servers, CollectReply(c, s),
         ChannelInvOf(c), QueryInv(c), MessagesOf(c), WrittenOf(c)
  PROVE  WrittenOf(c)'
<1> DEFINE tv == Head(replies[c][s]).TagValue_var
<1>1. /\ c \in busy /\ CountsReplies(c) /\ replies[c][s] # <<>>
      /\ \/ Phase[c] = SODAW_PUT_DATA
         \/ HasReturned(c) /\ UNCHANGED IsOnePhase
         \/ /\ ~ HasReturned(c)
            /\ TagValue_var'[c] = IF IsSmallerThan(TagValue_var[c].Tag_var, tv.Tag_var)
                                    THEN TagOnly(tv.Tag_var) ELSE TagValue_var[c]
            /\ IsOnePhase'[c] <=> StaysOnePhase(c, tv)
            /\ rx_state'[c] =
                 IF Phase[c] = SODAW_FAST_GET_TAG_DATA /\ StaysOnePhase(c, tv)
                   THEN AddChunk(rx_state[c], tv) ELSE {}
      /\ responders'[c] = responders[c] \cup {s}
      /\ replies'[c][s] = Tail(replies[c][s])
      /\ \A t \in Servers : t # s => replies'[c][t] = replies[c][t]
      /\ UNCHANGED <<serverVars, busy, Phase, requests>> /\ floor'[c] = floor[c]
  BY CollectReplyEffect DEF historyVars
<1>2. /\ Head(replies[c][s]) \in Messages(replies[c][s]) /\ tv \in TagValue
      /\ \A q \in Servers : Messages(replies'[c][q]) \subseteq Messages(replies[c][q])
  BY <1>1, ReceiveType
<1>3. tv.Tag_var \in Tag
  BY <1>2 DEF MessagesOf
<1>4. /\ num_responses[c] = Cardinality(responders[c])
      /\ s \notin responders[c]
  BY <1>1 DEF ChannelInvOf, Counted, OneCurrent
<1>5. /\ \A q \in Servers : \A m \in Messages(replies[c][q]) :
           Phase[c] = SODAW_FAST_GET_TAG_DATA /\ ~ UseDisk => Own(q, m.TagValue_var)
  BY <1>1 DEF WrittenOf, OnePhaseInv, InQuery
<1>6. ASSUME Phase[c] = SODAW_FAST_GET_TAG_DATA, ~ UseDisk,
             NEW q \in Servers, NEW m \in Messages(replies'[c][q])
      PROVE  Own(q, m.TagValue_var)'
  <2>1. m \in Messages(replies[c][q])
    BY <1>2
  <2>2. PICK u \in TagValue : u = m.TagValue_var
    BY <2>1, ReplyTags
  <2>3. Forward
    BY <1>1, StillForward
  <2>4. Own(q, u)'
    BY <1>5, <1>6, <2>1, <2>2, <2>3, OwnKeeps
  <2> QED
    BY <2>2, <2>4
<1>7. (Phase[c] = SODAW_FAST_GET_TAG_DATA /\ ~ UseDisk) => Own(s, tv)
  BY <1>2, <1>5
<1> HIDE DEF tv
<1>8. ASSUME Phase[c] = SODAW_FAST_GET_TAG_DATA, ~ UseDisk, IsOnePhase'[c],
             TagValue_var'[c].Tag_var # InitialTag
      PROVE  /\ \A e, f \in rx_state'[c] : e.CodeIndex = f.CodeIndex => e = f
             /\ {e.CodeIndex : e \in rx_state'[c]} = responders'[c]
  <2>1. /\ TagValue_var'[c] = IF IsSmallerThan(TagValue_var[c].Tag_var, tv.Tag_var)
                                THEN TagOnly(tv.Tag_var) ELSE TagValue_var[c]
        /\ IsOnePhase[c] /\ (num_responses[c] > 0 => tv.Tag_var = TagValue_var[c].Tag_var)
        /\ rx_state'[c] = AddChunk(rx_state[c], tv)
    BY <1>1, <1>8
    DEF HasReturned, StaysOnePhase, SODAW_FAST_GET_TAG_DATA, SODAW_PUT_DATA
  <2>2. TagOnly(tv.Tag_var).Tag_var = tv.Tag_var
    BY <1>3, DataTypes
  <2>3. TagValue_var'[c].Tag_var = tv.Tag_var /\ TagValue_var[c].Tag_var # InitialTag
    <3>1. CASE responders[c] = {}
      <4>1. TagValue_var[c].Tag_var = LowestTag
        BY <1>1, <1>8, <3>1 DEF QueryInv, InQuery
      <4>2. IsSmallerThan(LowestTag, tv.Tag_var) /\ LowestTag # InitialTag
        BY <1>3 DEF IsSmallerThan, LowestTag, InitialTag, Tag
      <4> QED
        BY <2>1, <2>2, <4>1, <4>2
    <3>2. CASE responders[c] # {}
      <4>1. Cardinality(responders[c]) \in Nat /\ Cardinality(responders[c]) # 0
        BY <3>2, ServersAssumption, FS_Subset, FS_CardinalityType, FS_EmptySet DEF TypeOK
      <4>2. tv.Tag_var = TagValue_var[c].Tag_var
        BY <1>4, <2>1, <4>1
      <4> QED
        BY <1>8, <2>1, <2>2, <4>2
    <3> QED
      BY <3>1, <3>2
  <2>4. tv.CodeIndex = s
    BY <1>7, <1>8, <2>3 DEF Own
  <2>5. /\ \A e, f \in rx_state[c] : e.CodeIndex = f.CodeIndex => e = f
        /\ {e.CodeIndex : e \in rx_state[c]} = responders[c]
    BY <1>1, <1>8, <2>1, <2>3 DEF WrittenOf, OnePhaseInv, InQuery
  <2>6. rx_state'[c] = rx_state[c] \cup {tv}
    BY <1>4, <2>1, <2>4, <2>5 DEF AddChunk
  <2>7. \A e \in rx_state[c] : e.CodeIndex # tv.CodeIndex
    BY <1>4, <2>4, <2>5
  <2> QED
    BY <1>1, <2>4, <2>5, <2>6, <2>7
<1>9. OnePhaseInv(c)'
  BY <1>1, <1>6, <1>8 DEF OnePhaseInv, WrittenOf, InQuery
<1> QED
  BY <1>1, <1>9 DEF WrittenOf, AboveInitial, CountsReplies

LEMMA CollectRelayWritten ==
  ASSUME TypeOK, NEW r \in Clients, NEW s \in Servers, CollectRelay(r, s), WrittenOf(r)
  PROVE  WrittenOf(r)'
<1>1. /\ r \in busy /\ Phase[r] = SODAW_GET_DATA /\ Opnum[r] \in Nat
      /\ \/ UNCHANGED <<busy, Phase, TagValue_var, requests>> /\ floor'[r] = floor[r]
         \/ /\ busy' = busy \ {r}
            /\ SendToServers(r, Opnum[r], SODAW_READ_COMPLETE, ToAll(TagOnly(ZeroTag)))
  BY CollectRelayEffect DEF phaseVars, historyVars, TypeOK
<1>2. CASE UNCHANGED <<busy, Phase, TagValue_var, requests>> /\ floor'[r] = floor[r]
  BY <1>1, <1>2
  DEF WrittenOf, AboveInitial, OnePhaseInv, SODAW_GET_DATA, SODAW_FAST_GET_TAG_DATA
<1>3. CASE /\ busy' = busy \ {r}
           /\ SendToServers(r, Opnum[r], SODAW_READ_COMPLETE, ToAll(TagOnly(ZeroTag)))
  <2>1. /\ ToAll(TagOnly(ZeroTag)) \in [Servers -> TagValue]
        /\ SODAW_READ_COMPLETE \in Phases /\ SODAW_READ_COMPLETE # SODAW_GET_DATA
    BY DataTypes, ToAllType DEF SODAW_GET_DATA, SODAW_READ_COMPLETE
  <2>2. \A i \in Incarnations, q \in Servers : \A m \in Messages(requests'[r][i][q]) :
          m \in Messages(requests[r][i][q]) \/ m.Phase = SODAW_READ_COMPLETE
    BY <1>1, <1>3, <2>1, Broadcast
  <2> QED
    BY <1>3, <2>1, <2>2, WrittenBetween
<1> QED
  BY <1>1, <1>2, <1>3

LEMMA WriterPutsDataWritten ==
  ASSUME TypeOK, NEW w \in Clients, WriterPutsData(w), WrittenOf(w)
  PROVE  WrittenOf(w)'
<1> DEFINE tv == [TagOnly(newTag(w)) EXCEPT !.Value = <<w, Opnum[w]>>]
           payload == [s \in Servers |-> [tv EXCEPT !.CodeIndex = s]]
<1>1. /\ EnterPhase(w, SODAW_PUT_DATA, tv) /\ payload \in [Servers -> TagValue]
      /\ SendToServers(w, Opnum[w], SODAW_PUT_DATA, payload)
      /\ busy' = busy /\ floor' = floor
  BY WriterPutsDataEffect DEF historyVars
<1> HIDE DEF tv, payload
<1>2. Phase'[w] = SODAW_PUT_DATA
  BY <1>1, EnterPhaseEffect
<1>3. /\ SODAW_PUT_DATA \in Phases /\ Opnum[w] \in Nat
      /\ SODAW_PUT_DATA \notin {SODAW_GET_DATA, SODAW_FAST_GET_TAG_DATA}
  BY DataTypes DEF TypeOK, SODAW_GET_DATA, SODAW_PUT_DATA, SODAW_FAST_GET_TAG_DATA
<1>4. \A i \in Incarnations, s \in Servers : \A m \in Messages(requests'[w][i][s]) :
        m \in Messages(requests[w][i][s]) \/ m.Phase = SODAW_PUT_DATA
  BY <1>1, <1>3, Broadcast
<1>5. \A i \in Incarnations, s \in Servers : \A m \in Messages(requests'[w][i][s]) :
        m.Phase = SODAW_GET_DATA => AboveInitial(m.TagValue_var.Tag_var)
  BY <1>3, <1>4 DEF WrittenOf
<1> QED
  BY <1>1, <1>2, <1>3, <1>5 DEF WrittenOf, OnePhaseInv, AboveInitial

LEMMA ReaderAsksForDataWritten ==
  ASSUME NoFailedWrite, TypeOK, NEW r \in Clients, ReaderAsksForData(r), ChannelInvOf(r), QueryInv(r),
         WrittenOf(r)
  PROVE  WrittenOf(r)'
<1> DEFINE tv == TagValue_var[r]
           payload == ToAll(tv)
<1>1. /\ r \in Readers /\ HasQuorum(r)
      /\ EnterPhase(r, SODAW_GET_DATA, tv) /\ payload \in [Servers -> TagValue]
      /\ \A s \in Servers : payload[s] = tv
      /\ SendToServers(r, Opnum[r], SODAW_GET_DATA, payload)
      /\ busy' = busy /\ floor' = floor
  BY ReaderAsksForDataEffect DEF historyVars
<1>2. r \in busy /\ InQuery(r)
  BY <1>1, ReaderQuorum DEF InQuery
<1>3. AboveInitial(tv.Tag_var)
  <2>1. tv.Tag_var \in AnyTag /\ floor[r] \in AnyTag
    BY DataTypes DEF TypeOK
  <2> QED
    BY <1>1, <1>2, <2>1, QuorumFloor, AboveKeeps DEF WrittenOf
<1> HIDE DEF tv, payload
<1>4. Phase'[r] = SODAW_GET_DATA
  BY <1>1, EnterPhaseEffect
<1>5. TagValue_var'[r] = tv
  BY <1>1 DEF EnterPhase, TypeOK
<1>6. SODAW_GET_DATA \in Phases /\ Opnum[r] \in Nat /\ SODAW_GET_DATA # SODAW_FAST_GET_TAG_DATA
  BY DataTypes DEF TypeOK, SODAW_GET_DATA, SODAW_FAST_GET_TAG_DATA
<1>7. ASSUME NEW i \in Incarnations, NEW s \in Servers, NEW m \in Messages(requests'[r][i][s]),
             m.Phase = SODAW_GET_DATA
      PROVE  AboveInitial(m.TagValue_var.Tag_var)
  <2>1. \/ m \in Messages(requests[r][i][s])
        \/ m = [Opnum |-> Opnum[r], Phase |-> SODAW_GET_DATA, TagValue_var |-> payload[s]]
    BY <1>1, <1>6, Broadcast
  <2> QED
    BY <1>1, <1>3, <1>7, <2>1 DEF WrittenOf
<1> QED
  BY <1>1, <1>3, <1>4, <1>5, <1>6, <1>7 DEF WrittenOf, OnePhaseInv, AboveInitial

\* A single phase ends with K elements, unless SODAW_FAST runs on disk.
LEMMA ReadInOnePhaseWritten ==
  ASSUME NoFailedWrite, TypeOK, ServerInv, NEW r \in Clients, ReadInOnePhase(r), ChannelInvOf(r), QueryInv(r),
         WrittenOf(r)
  PROVE  /\ WrittenOf(r)'
         /\ \/ panics' = panics
            \/ Fast /\ UseDisk /\ panics' = panics \cup {"exactly K coded blocks"}
<1>1. /\ HasQuorum(r) /\ r \in busy /\ Phase[r] = SODAW_FAST_GET_TAG_DATA /\ IsOnePhase[r]
      /\ UNCHANGED <<serverVars, requests>>
      /\ \/ busy' = busy \ {r} /\ panics' = panics
         \/ /\ Cardinality(rx_state[r]) # K /\ Idle(r)
            /\ panics' = panics \cup {"exactly K coded blocks"}
  BY ReadInOnePhaseEffect DEF HasQuorum, processVars
<1>2. CASE busy' = busy \ {r} /\ panics' = panics
  BY <1>1, <1>2, WrittenBetween
<1>3. CASE /\ Cardinality(rx_state[r]) # K /\ Idle(r)
           /\ panics' = panics \cup {"exactly K coded blocks"}
  <2>1. WrittenOf(r)'
    BY <1>1, <1>3, StillForward, WrittenIdle
  <2>2. Fast /\ UseDisk
    BY <1>1, <1>3, OnePhaseElements DEF WrittenOf, OnePhaseInv, InQuery
  <2> QED
    BY <1>3, <2>1, <2>2
<1> QED
  BY <1>1, <1>2, <1>3

\* completed grows.
LEMMA CompletedGrows ==
  ASSUME TypeOK, AtLeast(completed, InitialTag), NEW t \in AnyTag,
         completed' = LargerTag(t, completed)
  PROVE  AtLeast(completed', InitialTag)
<1>1. completed \in AnyTag /\ InitialTag \in AnyTag
  BY DataTypes DEF TypeOK
<1>2. AtLeast(LargerTag(t, completed), completed) /\ LargerTag(t, completed) \in AnyTag
  BY <1>1, LargerTagBounds
<1> QED
  BY <1>1, <1>2, TagTransitive

\* What a step keeps of the assertions that fail.
AssertionsHold ==
  \/ panics' = panics
  \/ panics' = panics \cup {"a tag less than requested tag"}
  \/ Fast /\ UseDisk /\ panics' = panics \cup {"exactly K coded blocks"}

\* What a step of client c keeps of WrittenInv.
ClientKeepsWritten(c) ==
  /\ WrittenOf(c)' /\ AtLeast(completed', InitialTag) /\ AssertionsHold
  /\ UNCHANGED serverVars /\ \A d \in Clients : d # c => Idle(d)

LEMMA ClientStepWritten ==
  ASSUME NoFailedWrite, Prewritten, TypeOK, ChannelInv, ServerInv, OrderInv, WrittenInv,
         NEW c \in Clients, ClientStep(c), ~ KillClient(c)
  PROVE  ClientKeepsWritten(c)
<1>1. /\ ChannelInvOf(c) /\ QueryInv(c) /\ MessagesOf(c) /\ WrittenOf(c)
      /\ AtLeast(completed, InitialTag)
  BY OrderIsClients DEF ChannelInv, ClientInv, OrderInvOf, WrittenInv
<1>2. CASE StartRead(c) \/ StartWrite(c)
  <2>1. PICK phase \in {SODAW_GET_TAG, SODAW_FAST_GET_TAG_DATA} :
          /\ StartOperation(c, phase)
          /\ phase = SODAW_FAST_GET_TAG_DATA => Fast /\ c \in Readers
          /\ c \in Readers => completed # InitialTag
    BY <1>2, ClientsAssumption
    DEF StartRead, StartWrite, SODAW_GET_TAG, SODAW_FAST_GET_TAG_DATA
  <2>2. phase \in Phases
    BY DataTypes
  <2>3. /\ UNCHANGED <<serverVars, processVars, completed>>
        /\ \A d \in Clients : d # c => Idle(d)
    BY <2>1, <2>2, StartOperationEffect
  <2>4. WrittenOf(c)'
    BY <1>1, <2>1, StartOperationWritten
  <2> QED
    BY <1>1, <2>3, <2>4 DEF ClientKeepsWritten, AssertionsHold, processVars
<1>3. ASSUME NEW s \in Servers, CollectReply(c, s) PROVE ClientKeepsWritten(c)
  <2>1. /\ UNCHANGED <<serverVars, processVars, historyVars>>
        /\ \A d \in Clients : d # c => Idle(d)
    BY <1>3, CollectReplyEffect
  <2>2. WrittenOf(c)'
    BY <1>1, <1>3, CollectReplyWritten
  <2> QED
    BY <1>1, <2>1, <2>2 DEF ClientKeepsWritten, AssertionsHold, processVars, historyVars
<1>4. ASSUME NEW s \in Servers, CollectRelay(c, s) PROVE ClientKeepsWritten(c)
  <2>1. /\ replies[c][s] # <<>> /\ UNCHANGED serverVars /\ AssertionsHold
        /\ \/ completed' = completed
           \/ completed' = LargerTag(Head(replies[c][s]).TagValue_var.Tag_var, completed)
        /\ \A d \in Clients : d # c => Idle(d)
    BY <1>4, CollectRelayEffect DEF AssertionsHold, processVars, historyVars
  <2>2. Head(replies[c][s]).TagValue_var.Tag_var \in AnyTag
    BY <2>1, ReceiveType, DataTypes
  <2>3. AtLeast(completed', InitialTag)
    BY <1>1, <2>1, <2>2, CompletedGrows
  <2>4. WrittenOf(c)'
    BY <1>1, <1>4, CollectRelayWritten
  <2> QED
    BY <2>1, <2>3, <2>4 DEF ClientKeepsWritten
<1>5. CASE WriterPutsData(c)
  <2>1. /\ UNCHANGED <<serverVars, processVars, historyVars>>
        /\ \A d \in Clients : d # c => Idle(d)
    BY <1>5, WriterPutsDataEffect
  <2>2. WrittenOf(c)'
    BY <1>1, <1>5, WriterPutsDataWritten
  <2> QED
    BY <1>1, <2>1, <2>2 DEF ClientKeepsWritten, AssertionsHold, processVars, historyVars
<1>6. CASE PutDataCompletes(c)
  <2>1. /\ UNCHANGED <<serverVars, processVars, requests>> /\ busy' = busy \ {c}
        /\ completed' = LargerTag(TagValue_var[c].Tag_var, completed)
        /\ \A d \in Clients : d # c => Idle(d)
    BY <1>6, PutDataCompletesEffect
  <2>2. TagValue_var[c].Tag_var \in AnyTag
    BY DataTypes DEF TypeOK
  <2>3. AtLeast(completed', InitialTag)
    BY <1>1, <2>1, <2>2, CompletedGrows
  <2>4. WrittenOf(c)'
    BY <1>1, <2>1, WrittenBetween
  <2> QED
    BY <2>1, <2>3, <2>4 DEF ClientKeepsWritten, AssertionsHold, processVars
<1>7. CASE ReaderAsksForData(c)
  <2>1. /\ UNCHANGED <<serverVars, processVars, historyVars>>
        /\ \A d \in Clients : d # c => Idle(d)
    BY <1>7, ReaderAsksForDataEffect
  <2>2. WrittenOf(c)'
    BY <1>1, <1>7, ReaderAsksForDataWritten
  <2> QED
    BY <1>1, <2>1, <2>2 DEF ClientKeepsWritten, AssertionsHold, processVars, historyVars
<1>8. CASE ReadInOnePhase(c)
  <2>1. /\ UNCHANGED serverVars
        /\ \/ completed' = completed
           \/ completed' = LargerTag(TagValue_var[c].Tag_var, completed)
        /\ \A d \in Clients : d # c => Idle(d)
    BY <1>8, ReadInOnePhaseEffect DEF historyVars
  <2>2. TagValue_var[c].Tag_var \in AnyTag
    BY DataTypes DEF TypeOK
  <2>3. AtLeast(completed', InitialTag)
    BY <1>1, <2>1, <2>2, CompletedGrows
  <2>4. WrittenOf(c)' /\ AssertionsHold
    BY <1>1, <1>8, ReadInOnePhaseWritten DEF AssertionsHold
  <2> QED
    BY <2>1, <2>3, <2>4 DEF ClientKeepsWritten
<1>9. CASE emulateNewClient(c)
  <2>1. /\ c \notin busy
        /\ UNCHANGED <<serverVars, processVars, busy, netVars, historyVars>>
        /\ \A d \in Clients : d # c => Idle(d)
    BY <1>9, EmulateEffect
  <2>2. WrittenOf(c)'
    BY <1>1, <2>1, WrittenBetween DEF netVars
  <2> QED
    BY <1>1, <2>1, <2>2 DEF ClientKeepsWritten, AssertionsHold, processVars, historyVars
<1> QED
  BY <1>2, <1>3, <1>4, <1>5, <1>6, <1>7, <1>8, <1>9 DEF ClientStep

LEMMA AssertionsKeep ==
  ASSUME AssertionsHold, FilesExistWhenRead, DecoderGetsKBlocks \/ (Fast /\ UseDisk)
  PROVE  FilesExistWhenRead' /\ (DecoderGetsKBlocks' \/ (Fast /\ UseDisk))
BY DEF AssertionsHold, FilesExistWhenRead, DecoderGetsKBlocks

\* Nobody steps, or a client that sends and receives nothing is killed.
LEMMA WrittenStill ==
  ASSUME TypeOK, ServerInv, WrittenInv, UNCHANGED <<serverVars, panics, completed, replies>>,
         \A d \in Clients : SameClient(d) /\ RequestsShrink(d)
  PROVE  WrittenInv'
<1>1. \A d \in Clients : WrittenOf(d)'
  <2> TAKE d \in Clients
  <2>1. Forward /\ WrittenOf(d)
    BY StillForward DEF WrittenInv
  <2>2. OnePhaseInv(d)'
    BY <2>1, OnePhaseFrame DEF WrittenOf
  <2> QED
    BY <2>1, <2>2, WrittenFrame
<1>2. AtLeast(completed', InitialTag)
  BY DEF WrittenInv
<1> QED
  BY <1>1, <1>2, AssertionsKeep DEF WrittenInv, AssertionsHold

LEMMA WrittenStep ==
  ASSUME NoFailedWrite, Prewritten, TypeOK, TypeOK', ChannelInv, ServerInv, OrderInv, WrittenInv,
         [Next]_vars
  PROVE  WrittenInv'
<1>1. CASE UNCHANGED vars
  <2>1. /\ UNCHANGED <<serverVars, panics, completed, replies>>
        /\ \A d \in Clients : SameClient(d) /\ RequestsShrink(d)
    BY <1>1, SameShrinks DEF vars, serverVars, processVars, phaseVars, netVars, historyVars,
       SameClient, RequestsShrink
  <2> QED
    BY <2>1, WrittenStill
<1>2. ASSUME NEW c \in Clients, ClientStep(c) PROVE WrittenInv'
  <2>1. CASE KillClient(c)
    <3>1. /\ UNCHANGED <<serverVars, panics, completed, replies>>
          /\ \A d \in Clients : SameClient(d)
      BY <2>1, KillClientEffect DEF historyVars
    <3> QED
      BY <2>1, <3>1, KillShrinks, WrittenStill
  <2>2. CASE ~ KillClient(c)
    <3>1. ClientKeepsWritten(c)
      BY <1>2, <2>2, ClientStepWritten
    <3>2. Forward
      BY <3>1, StillForward DEF ClientKeepsWritten
    <3>3. \A d \in Clients : WrittenOf(d)'
      BY <3>1, <3>2, WrittenIdle DEF ClientKeepsWritten, WrittenInv
    <3> QED
      BY <3>1, <3>3, AssertionsKeep DEF ClientKeepsWritten, WrittenInv
  <2> QED
    BY <2>1, <2>2
<1>3. ASSUME NEW s \in Servers, NEW c \in Clients, NEW i \in Incarnations,
             ServerStep(s, c, i)
      PROVE  WrittenInv'
  <2>1. ServerInv' /\ Forward
    BY <1>3, ServerMoves DEF OrderInv
  <2>2. \A d \in Clients : WrittenOf(d)'
    BY <1>3, <2>1, ServerStepWritten DEF WrittenInv
  <2>3. panics' = panics
    BY <1>3, ServerStepFiles DEF WrittenInv, OrderInv
  <2>4. completed' = completed
    BY <1>3 DEF ServerStep, historyVars
  <2> QED
    BY <2>2, <2>3, <2>4, AssertionsKeep DEF AssertionsHold, WrittenInv
<1>4. ASSUME NEW s \in Servers, KillServer(s) PROVE WrittenInv'
  <2>1. /\ UNCHANGED <<serverVars, panics, completed, replies>>
        /\ \A d \in Clients : SameClient(d) /\ RequestsShrink(d)
    BY <1>4, KillServerEffect, SameShrinks DEF Idle, RequestsShrink, historyVars, netVars
  <2> QED
    BY <2>1, WrittenStill
<1> QED
  BY <1>1, <1>2, <1>3, <1>4 DEF Next, AllDone

LEMMA WrittenInit == Init => WrittenInv
<1> SUFFICES ASSUME Init PROVE WrittenInv
  OBVIOUS
<1>1. \A c \in Clients : WrittenOf(c)
  BY EmptyMessages DEF Init, WrittenOf, OnePhaseInv, InQuery
<1>2. AtLeast(completed, InitialTag)
  BY DataTypes, TagTotal DEF Init
<1> QED
  BY <1>1, <1>2 DEF Init, WrittenInv, FilesExistWhenRead, DecoderGetsKBlocks

\* The inductive invariant of a store whose objects are written before they are
\* read, as start_regression.sh has it.
THEOREM WrittenObjects == ASSUME NoFailedWrite, Prewritten PROVE Spec => []WInv
<1>1. Init => WInv
  BY TypeInit, ChannelInit, OrderInit, WrittenInit DEF WInv, IInv
<1>2. WInv /\ [Next]_vars => WInv'
  BY TypeStep, ChannelStep, OrderStep, WrittenStep DEF WInv, IInv
<1> QED
  BY <1>1, <1>2, PTL DEF Spec

\* A server that is asked for the file of an object has written it, since it is
\* asked for a tag that it can only hold by a put (getDataRespSodaw 379-382).
THEOREM FilesAreWritten == ASSUME NoFailedWrite, Prewritten PROVE Spec => []FilesExistWhenRead
<1>1. WInv => FilesExistWhenRead
  BY DEF WInv, WrittenInv
<1> QED
  BY <1>1, WrittenObjects, PTL

\* SODAW, and SODAW_FAST in memory, never hand the decoder fewer or more than K
\* elements (applicationUtilities.go 108-112).
THEOREM DecoderIsFed ==
  ASSUME NoFailedWrite, Prewritten, ~ (Fast /\ UseDisk)
  PROVE  Spec => []DecoderGetsKBlocks
<1>1. WInv => DecoderGetsKBlocks
  BY DEF WInv, WrittenInv
<1> QED
  BY <1>1, WrittenObjects, PTL

-----------------------------------------------------------------------------
(* What was written *)

\* What was written once stays written.
WrittenStays == \A p : IsWritten(p) => IsWritten(p)'

LEMMA PairOfElement ==
  \A tv : Pair(tv).Tag_var = tv.Tag_var /\ Pair(tv).Value = tv.Value
BY DEF Pair

LEMMA WrittenGrows ==
  ASSUME log \subseteq log',
         \A w \in Writers \cap busy : Phase[w] = SODAW_PUT_DATA =>
           \/ /\ w \in busy' /\ Phase'[w] = SODAW_PUT_DATA
              /\ TagValue_var'[w] = TagValue_var[w]
           \/ \E e \in log' : e.client \in Writers /\ e.TagValue_var = Pair(TagValue_var[w])
  PROVE  WrittenStays
<1> SUFFICES ASSUME NEW p, IsWritten(p) PROVE IsWritten(p)'
  BY DEF WrittenStays
<1>1. CASE p = InitialPair
  BY <1>1 DEF IsWritten, InitialPair
<1>2. ASSUME NEW e \in log, e.client \in Writers, e.TagValue_var = p
      PROVE  IsWritten(p)'
  BY <1>2 DEF IsWritten
<1>3. ASSUME NEW w \in Writers \cap busy, Phase[w] = SODAW_PUT_DATA, Pair(TagValue_var[w]) = p
      PROVE  IsWritten(p)'
  BY <1>3 DEF IsWritten, Pair
<1> QED
  BY <1>1, <1>2, <1>3 DEF IsWritten

\* No two writers share a name.
LEMMA NameOwner ==
  ASSUME NEW v \in Writers, NEW w \in Writers, NEW n, n \in Names(v), n \in Names(w)
  PROVE  v = w
<1>1. PICK i \in Incarnations : n = NameTag[v][i]
  BY DEF Names
<1>2. PICK j \in Incarnations : n = NameTag[w][j]
  BY DEF Names
<1>3. NameTag[v][i] = NameTag[w][j]
  BY <1>1, <1>2
<1> QED
  BY <1>3, NameTagAssumption

LEMMA NamesAreRanks ==
  ASSUME NEW w \in Writers
  PROVE  Names(w) \subseteq Nat
BY NameTagAssumption DEF Names

\* A pair that a writer could have written.
LEMMA WriterPairTypes ==
  ASSUME NEW w \in Writers, NEW p, WriterPair(w, p)
  PROVE  /\ p.Tag_var \in Tag /\ p.Tag_var # InitialTag /\ p.Value \in Values
         /\ p.Tag_var.Client_id \in Names(w)
<1>1. /\ p.Value \in Values /\ p.Tag_var.Client_id \in Names(w)
      /\ p.Tag_var \in [Version_num : Nat \ {0}, Client_id : Names(w)]
  BY DEF WriterPair
<1>2. p.Tag_var.Version_num \in Nat \ {0} /\ p.Tag_var \in [Version_num : Nat, Client_id : Nat]
  BY <1>1, NamesAreRanks
<1>3. InitialTag.Version_num = 0
  BY DEF InitialTag
<1> QED
  BY <1>1, <1>2, <1>3 DEF Tag

\* What is written is the initial pair, or is in the log, or on its way.
LEMMA WrittenTypes ==
  ASSUME LogInv, \A w \in Writers : AboveFloor(w), NEW p, IsWritten(p)
  PROVE  /\ p.Tag_var \in Tag
         /\ p.Tag_var = InitialTag \/ p.Value \in Values
<1>1. CASE p = InitialPair
  BY <1>1, DataTypes DEF InitialPair, Pair, TagOnly
<1>2. ASSUME NEW e \in log, e.client \in Writers, e.TagValue_var = p
      PROVE  p.Tag_var \in Tag /\ p.Value \in Values
  BY <1>2, WriterPairTypes DEF LogInv, LogOf
<1>3. ASSUME NEW w \in Writers \cap busy, Phase[w] = SODAW_PUT_DATA, Pair(TagValue_var[w]) = p
      PROVE  p.Tag_var \in Tag /\ p.Value \in Values
  BY <1>3, WriterPairTypes DEF AboveFloor
<1> QED
  BY <1>1, <1>2, <1>3 DEF IsWritten

\* One tag has one value: another writer signs with another name, and a writer's
\* own earlier tags are below its floor.
LEMMA OneValue ==
  ASSUME TypeOK, LogInv, \A w \in Writers : AboveFloor(w),
         NEW p, IsWritten(p), NEW q, IsWritten(q), p.Tag_var = q.Tag_var
  PROVE  p.Value = q.Value
<1> DEFINE Logged(x) == \E e \in log : e.client \in Writers /\ e.TagValue_var = x
           OnItsWay(x) == \E w \in Writers \cap busy :
             Phase[w] = SODAW_PUT_DATA /\ Pair(TagValue_var[w]) = x
<1>1. \A x : IsWritten(x) => x = InitialPair \/ Logged(x) \/ OnItsWay(x)
  BY DEF IsWritten
<1>2. ASSUME NEW x, Logged(x) \/ OnItsWay(x) PROVE x.Tag_var # InitialTag
  <2>1. ASSUME NEW e \in log, e.client \in Writers, e.TagValue_var = x
        PROVE  x.Tag_var # InitialTag
    BY <2>1, WriterPairTypes DEF LogInv, LogOf
  <2>2. ASSUME NEW w \in Writers \cap busy, Phase[w] = SODAW_PUT_DATA, Pair(TagValue_var[w]) = x
        PROVE  x.Tag_var # InitialTag
    BY <2>2, WriterPairTypes DEF AboveFloor
  <2> QED
    BY <1>2, <2>1, <2>2
<1>3. InitialPair.Tag_var = InitialTag
  BY DEF InitialPair, Pair, TagOnly
<1>4. ASSUME NEW e \in log, e.client \in Writers,
             NEW f \in log, f.client \in Writers,
             e.TagValue_var.Tag_var = f.TagValue_var.Tag_var
      PROVE  e.TagValue_var.Value = f.TagValue_var.Value
  BY <1>4 DEF LogInv
<1>5. ASSUME NEW e \in log, e.client \in Writers,
             NEW w \in Writers \cap busy, Phase[w] = SODAW_PUT_DATA
      PROVE  e.TagValue_var.Tag_var # Pair(TagValue_var[w]).Tag_var
  <2> SUFFICES ASSUME e.TagValue_var.Tag_var = Pair(TagValue_var[w]).Tag_var
               PROVE  FALSE
    OBVIOUS
  <2>1. /\ WriterPair(w, Pair(TagValue_var[w]))
        /\ isGreaterTag(TagValue_var[w].Tag_var, floor[w])
    BY <1>5 DEF AboveFloor
  <2>2. LogOf(e) /\ WriterPair(e.client, e.TagValue_var)
    BY <1>5 DEF LogInv, LogOf
  <2>3. e.client = w
    BY <1>5, <2>1, <2>2, WriterPairTypes, NameOwner
  <2>4. AtLeast(floor[w], e.TagValue_var.Tag_var)
    BY <1>5, <2>2, <2>3 DEF LogOf
  <2> QED
    BY <2>1, <2>4, PairOfElement DEF AtLeast
<1>6. ASSUME NEW v \in Writers \cap busy, Phase[v] = SODAW_PUT_DATA,
             NEW w \in Writers \cap busy, Phase[w] = SODAW_PUT_DATA,
             Pair(TagValue_var[v]).Tag_var = Pair(TagValue_var[w]).Tag_var
      PROVE  v = w
  BY <1>6, WriterPairTypes, NameOwner DEF AboveFloor
<1>7. CASE p = InitialPair \/ q = InitialPair
  BY <1>1, <1>2, <1>3, <1>7
<1>8. CASE Logged(p) /\ Logged(q)
  BY <1>4, <1>8
<1>9. CASE (Logged(p) /\ OnItsWay(q)) \/ (OnItsWay(p) /\ Logged(q))
  <2>1. \A x, y : Logged(x) /\ OnItsWay(y) => x.Tag_var # y.Tag_var
    BY <1>5
  <2> QED
    BY <1>9, <2>1
<1>10. CASE OnItsWay(p) /\ OnItsWay(q)
  BY <1>6, <1>10
<1> QED
  BY <1>1, <1>7, <1>8, <1>9, <1>10

\* K elements of one tag, above the initial one, decode to the value that was
\* written with it.
LEMMA DecodedWritten ==
  ASSUME TypeOK, LogInv, \A w \in Writers : AboveFloor(w), NEW t, t # InitialTag,
         NEW rx, Cardinality(rx) = K,
         \A e \in rx : IsWritten(Pair(e)) /\ e.Tag_var = t
  PROVE  IsWritten([Tag_var |-> t, Value |-> Decoded(rx)])
<1>1. rx # {}
  <2>1. majority >= 1
    <3>1. Cardinality(Servers) \in Nat
      BY ServersAssumption, FS_CardinalityType
    <3> QED
      BY <3>1 DEF majority
  <2>2. K >= 1 /\ Cardinality({}) = 0
    BY <2>1, DataTypes, FS_EmptySet
  <2> QED
    BY <2>2
<1>2. PICK e \in rx : e = CHOOSE x \in rx : TRUE
  BY <1>1
<1>3. IsWritten(Pair(e)) /\ e.Tag_var = t /\ e.Value \in Values
  BY PairOfElement, WrittenTypes
<1>4. \A f \in rx : f.Value = e.Value
  BY <1>3, PairOfElement, OneValue
<1>5. Decoded(rx) = e.Value
  BY <1>2, <1>3, <1>4 DEF Decoded
<1> QED
  BY <1>3, <1>5 DEF Pair

-----------------------------------------------------------------------------
(* Clients that do not step *)

LEMMA ElementsFrame ==
  ASSUME WrittenStays, NEW d \in Clients, SameClient(d), RequestsShrink(d), ElementsWritten(d),
         \A s \in Servers : \A m \in Messages(replies'[d][s]) :
           \/ m \in Messages(replies[d][s])
           \/ d \in Readers /\ m.Phase # SODAW_GET_TAG => IsWritten(Pair(m.TagValue_var))
  PROVE  ElementsWritten(d)'
<1>1. ASSUME NEW i \in Incarnations, NEW s \in Servers, NEW m \in Messages(requests'[d][i][s]),
             m.Phase = SODAW_PUT_DATA
      PROVE  IsWritten(Pair(m.TagValue_var))'
  <2>1. m \in Messages(requests[d][i][s])
    BY DEF RequestsShrink, Shrinks
  <2>2. IsWritten(Pair(m.TagValue_var))
    BY <1>1, <2>1 DEF ElementsWritten
  <2> QED
    BY <2>2 DEF WrittenStays
<1>2. ASSUME d \in Readers, d \in busy'
      PROVE  /\ \A s \in Servers : \A m \in Messages(replies'[d][s]) :
                  m.Phase # SODAW_GET_TAG => IsWritten(Pair(m.TagValue_var))'
             /\ \A e \in rx_state'[d] :
                  /\ IsWritten(Pair(e))'
                  /\ Phase'[d] = SODAW_GET_DATA \/ e.Tag_var = TagValue_var'[d].Tag_var
  <2>1. d \in busy /\ rx_state'[d] = rx_state[d] /\ Phase'[d] = Phase[d]
        /\ TagValue_var'[d] = TagValue_var[d]
    BY <1>2 DEF SameClient
  <2>2. ASSUME NEW s \in Servers, NEW m \in Messages(replies'[d][s]), m.Phase # SODAW_GET_TAG
        PROVE  IsWritten(Pair(m.TagValue_var))'
    <3>1. IsWritten(Pair(m.TagValue_var))
      BY <1>2, <2>1, <2>2 DEF ElementsWritten
    <3> QED
      BY <3>1 DEF WrittenStays
  <2>3. ASSUME NEW e \in rx_state'[d]
        PROVE  /\ IsWritten(Pair(e))'
               /\ Phase'[d] = SODAW_GET_DATA \/ e.Tag_var = TagValue_var'[d].Tag_var
    <3>1. /\ IsWritten(Pair(e))
          /\ Phase[d] = SODAW_GET_DATA \/ e.Tag_var = TagValue_var[d].Tag_var
      BY <1>2, <2>1 DEF ElementsWritten
    <3> QED
      BY <2>1, <3>1 DEF WrittenStays
  <2> QED
    BY <2>2, <2>3
<1> QED
  BY <1>1, <1>2 DEF ElementsWritten

LEMMA ValueFrame ==
  ASSUME WrittenStays, NEW d \in Clients, SameClient(d), RequestsShrink(d), ValueInvOf(d),
         \A s \in Servers : replies'[d][s] = replies[d][s]
  PROVE  ValueInvOf(d)'
<1>1. ElementsWritten(d)'
  BY ElementsFrame DEF ValueInvOf
<1>2. AboveFloor(d)'
  BY DEF ValueInvOf, AboveFloor, SameClient
<1> QED
  BY <1>1, <1>2 DEF ValueInvOf

LEMMA ValueIdle ==
  ASSUME WrittenStays, NEW d \in Clients, Idle(d), ValueInvOf(d)
  PROVE  ValueInvOf(d)'
<1>1. SameClient(d) /\ RequestsShrink(d) /\ \A s \in Servers : replies'[d][s] = replies[d][s]
  BY SameShrinks DEF Idle, RequestsShrink
<1> QED
  BY <1>1, ValueFrame

LEMMA ServersStayWritten ==
  ASSUME WrittenStays, UNCHANGED serverVars, \A s \in Servers : ServerWritten(s)
  PROVE  \A s \in Servers : ServerWritten(s)'
<1> SUFFICES ASSUME NEW s \in Servers PROVE ServerWritten(s)'
  OBVIOUS
<1>1. tagCodedElement_var' = tagCodedElement_var /\ disk' = disk
  BY DEF serverVars
<1>2. CASE UseDisk
  BY <1>1, <1>2 DEF ServerWritten, WrittenStays
<1>3. CASE ~ UseDisk
  BY <1>1, <1>3 DEF ServerWritten, WrittenStays
<1> QED
  BY <1>2, <1>3

-----------------------------------------------------------------------------
(* Steps of servers *)

\* Server s sends reader d at most one message, with a pair that was written
\* unless it answers with the tag only.
SendsWritten(s, d) ==
  \/ replies'[d][s] = replies[d][s]
  \/ \E a \in Message :
       /\ replies'[d][s] = Append(replies[d][s], a)
       /\ a.Phase # SODAW_GET_TAG => IsWritten(Pair(a.TagValue_var))

LEMMA QuerySendsWritten ==
  ASSUME TypeOK, ~ (Fast /\ UseDisk), NEW s \in Servers, NEW c \in Clients,
         NEW i \in Incarnations, NEW m \in Message, getTagResp(s, c, i, m),
         ServerWritten(s), OnePhaseInv(c), NEW d \in Readers
  PROVE  SendsWritten(s, d)
<1> DEFINE tv == IF m.Phase = SODAW_GET_TAG THEN TagOnly(tagCodedElement_var[s].Tag_var)
                 ELSE tagCodedElement_var[s]
           a == [m EXCEPT !.TagValue_var = tv]
<1>1. tv \in TagValue
  <2>1. tagCodedElement_var[s] \in TagValue
    BY DEF TypeOK
  <2> QED
    BY <2>1, DataTypes
<1>2. Reply(c, i, s, a) /\ m.Phase \in {SODAW_GET_TAG, SODAW_FAST_GET_TAG_DATA}
  BY DEF getTagResp
<1>3. m.Phase # SODAW_GET_TAG => tv = tagCodedElement_var[s]
  OBVIOUS
<1> HIDE DEF tv
<1>4. \/ replies'[d][s] = replies[d][s]
      \/ d = c /\ m \in Current(c) /\ replies'[d][s] = Append(replies[d][s], a)
  BY <1>1, <1>2, ReplyEffect DEF Clients
<1>5. a \in Message /\ a.TagValue_var = tv /\ a.Phase = m.Phase
  BY <1>1 DEF Message
<1>6. ASSUME m \in Current(c), m.Phase # SODAW_GET_TAG
      PROVE  IsWritten(Pair(tv))
  <2>1. InQuery(c) /\ Phase[c] = SODAW_FAST_GET_TAG_DATA
    BY <1>2, <1>6 DEF Current, InQuery
  <2>2. ~ UseDisk
    BY <2>1 DEF OnePhaseInv
  <2> QED
    BY <1>3, <1>6, <2>2 DEF ServerWritten
<1> QED
  BY <1>4, <1>5, <1>6 DEF SendsWritten

LEMMA DataSendsWritten ==
  ASSUME TypeOK, NEW s \in Servers, NEW c \in Clients, NEW i \in Incarnations,
         NEW m \in Message, getDataResp(s, c, i, m), ServerWritten(s), NEW d \in Readers
  PROVE  SendsWritten(s, d)
<1>1. CASE doesReadExist(s, c, m.Opnum) \/ ~ AnswersNow(s, m.TagValue_var.Tag_var)
           \/ (UseDisk /\ disk[s].Tag_var = LowestTag)
  BY <1>1 DEF getDataResp, SendsWritten
<1>2. CASE /\ ~ doesReadExist(s, c, m.Opnum) /\ AnswersNow(s, m.TagValue_var.Tag_var)
           /\ ~ (UseDisk /\ disk[s].Tag_var = LowestTag)
  <2>1. PICK tv \in TagValue : tv = IF UseDisk THEN disk[s] ELSE tagCodedElement_var[s]
    BY DEF TypeOK
  <2> DEFINE a == [m EXCEPT !.TagValue_var = tv]
  <2>2. /\ tagCodedElement_var' = [tagCodedElement_var EXCEPT ![s] = tv]
        /\ Reply(c, i, s, [m EXCEPT !.TagValue_var = tagCodedElement_var'[s]])
    BY <1>2, <2>1 DEF getDataResp
  <2>3. tagCodedElement_var'[s] = tv
    BY <2>2 DEF TypeOK
  <2>4. replies'[d][s] = replies[d][s] \/ replies'[d][s] = Append(replies[d][s], a)
    <3>1. Reply(c, i, s, [m EXCEPT !.TagValue_var = tv])
      BY <2>2, <2>3
    <3> QED
      BY <3>1, ReplyEffect DEF Clients
  <2>5. IsWritten(Pair(tv))
    BY <1>2, <2>1 DEF ServerWritten
  <2>6. a \in Message /\ a.TagValue_var = tv
    BY DEF Message
  <2> QED
    BY <2>4, <2>5, <2>6 DEF SendsWritten
<1> QED
  BY <1>1, <1>2

LEMMA PutSendsWritten ==
  ASSUME TypeOK, ChannelInv, NEW s \in Servers, NEW c \in Clients, NEW i \in Incarnations,
         NEW m \in Message, putDataResp(s, c, i, m), IsWritten(Pair(m.TagValue_var)),
         NEW d \in Readers
  PROVE  SendsWritten(s, d)
<1>1. m.Phase = SODAW_PUT_DATA /\ d \in Clients
  BY DEF putDataResp, Clients
<1>2. m \notin Current(d)
  BY <1>1 DEF Current, ChannelInv, ChannelInvOf, InOrder
<1>3. \/ replies'[d][s] = replies[d][s]
      \/ replies'[d][s] = Append(replies[d][s], RelayOf(d, m))
  BY <1>1, <1>2, PutSends
<1>4. RelayOf(d, m) \in Message /\ RelayOf(d, m).TagValue_var = m.TagValue_var
  BY <1>1, DataTypes DEF RelayOf, Message, TypeOK
<1> QED
  BY <1>3, <1>4 DEF SendsWritten

LEMMA StepSendsWritten ==
  ASSUME TypeOK, ~ (Fast /\ UseDisk), ChannelInv, NEW s \in Servers, NEW c \in Clients,
         NEW i \in Incarnations, ServerStep(s, c, i), ServerWritten(s), ElementsWritten(c),
         OnePhaseInv(c), NEW d \in Readers
  PROVE  SendsWritten(s, d)
<1> DEFINE m == Head(requests[c][i][s])
<1>1. /\ \/ getTagResp(s, c, i, m) \/ getDataResp(s, c, i, m)
         \/ readCompleteResp(s, c, i, m) \/ putDataResp(s, c, i, m)
      /\ m \in Messages(requests[c][i][s]) /\ m \in Message
  BY TakenMessage, TakeEffect DEF ServerStep
<1>2. m.Phase = SODAW_PUT_DATA => IsWritten(Pair(m.TagValue_var))
  BY <1>1 DEF ElementsWritten
<1> HIDE DEF m
<1>3. CASE readCompleteResp(s, c, i, m)
  BY <1>3 DEF readCompleteResp, SendsWritten
<1>4. CASE putDataResp(s, c, i, m)
  <2>1. m.Phase = SODAW_PUT_DATA
    BY <1>4 DEF putDataResp
  <2> QED
    BY <1>1, <1>2, <1>4, <2>1, PutSendsWritten
<1> QED
  BY <1>1, <1>3, <1>4, QuerySendsWritten, DataSendsWritten

LEMMA ServerStepValues ==
  ASSUME NoFailedWrite, ~ (Fast /\ UseDisk), TypeOK, ChannelInv, WrittenInv, ValueInv,
         NEW s \in Servers, NEW c \in Clients, NEW i \in Incarnations, ServerStep(s, c, i)
  PROVE  ValueInv'
<1>1. /\ UNCHANGED <<busy, Opnum, incarnation, phaseVars, drops, historyVars>>
      /\ \A d \in Clients : SameClient(d) /\ RequestsShrink(d)
  BY ServerStepEffect
<1>2. WrittenStays
  BY <1>1, WrittenGrows DEF historyVars, phaseVars
<1>3. \A d \in Clients, t \in Servers : t # s => replies'[d][t] = replies[d][t]
  BY StepHandled DEF Handled, AnswersSent
<1>4. ASSUME NEW d \in Clients PROVE ValueInvOf(d)'
  <2>1. ASSUME NEW t \in Servers, NEW m \in Messages(replies'[d][t]), d \in Readers
        PROVE  \/ m \in Messages(replies[d][t])
               \/ m.Phase # SODAW_GET_TAG => IsWritten(Pair(m.TagValue_var))
    <3>1. CASE replies'[d][t] = replies[d][t]
      BY <3>1
    <3>2. CASE t = s /\ replies'[d][s] # replies[d][s]
      <4>1. SendsWritten(s, d)
        BY <2>1, StepSendsWritten DEF ValueInv, ValueInvOf, WrittenInv, WrittenOf
      <4>2. PICK a \in Message :
              /\ replies'[d][s] = Append(replies[d][s], a)
              /\ a.Phase # SODAW_GET_TAG => IsWritten(Pair(a.TagValue_var))
        BY <3>2, <4>1 DEF SendsWritten
      <4>3. replies[d][s] \in Seq(Message)
        BY DEF TypeOK
      <4>4. Messages(replies'[d][s]) = Messages(replies[d][s]) \cup {a}
        BY <4>2, <4>3, SendMessages
      <4> QED
        BY <3>2, <4>2, <4>4
    <3> QED
      BY <1>3, <3>1, <3>2
  <2>2. ASSUME d \notin Readers PROVE ElementsWritten(d)'
    BY <1>1, <1>2, <2>2, ElementsFrame DEF ValueInv, ValueInvOf
  <2>3. ASSUME d \in Readers PROVE ElementsWritten(d)'
    BY <1>1, <1>2, <2>1, <2>3, ElementsFrame DEF ValueInv, ValueInvOf
  <2>4. AboveFloor(d)'
    BY <1>1 DEF ValueInv, ValueInvOf, AboveFloor, SameClient
  <2> QED
    BY <2>2, <2>3, <2>4 DEF ValueInvOf
<1>5. ASSUME NEW t \in Servers PROVE ServerWritten(t)'
  <2> DEFINE m == Head(requests[c][i][s])
  <2>1. ServerWritten(t) /\ (m.Phase = SODAW_PUT_DATA => IsWritten(Pair(m.TagValue_var)))
    BY TakenMessage DEF ValueInv, ValueInvOf, ElementsWritten
  <2> HIDE DEF m
  <2>2. \/ tagCodedElement_var'[t] = tagCodedElement_var[t] /\ disk'[t] = disk[t]
        \/ UseDisk /\ disk'[t] = disk[t]
        \/ /\ m.Phase = SODAW_PUT_DATA
           /\ IF UseDisk THEN disk'[t] = m.TagValue_var
                         ELSE tagCodedElement_var'[t] = m.TagValue_var
    BY ServerStores DEF m
  <2>3. CASE UseDisk
    BY <1>2, <2>1, <2>2, <2>3 DEF ServerWritten, WrittenStays
  <2>4. CASE ~ UseDisk
    BY <1>2, <2>1, <2>2, <2>4 DEF ServerWritten, WrittenStays
  <2> QED
    BY <2>3, <2>4
<1>6. LogInv'
  BY <1>1 DEF ValueInv, LogInv, LogOf, historyVars
<1> QED
  BY <1>4, <1>5, <1>6 DEF ValueInv

-----------------------------------------------------------------------------
(* The log *)

LEMMA LogFrame ==
  ASSUME LogInv, UNCHANGED <<busy, historyVars>>
  PROVE  LogInv'
BY DEF LogInv, LogOf, historyVars

\* An operation begins above everything in the log.
LEMMA LogStarts ==
  ASSUME LogInv, NEW c \in Clients, busy' = busy \cup {c}, floor'[c] = completed,
         \A d \in Clients : d # c => floor'[d] = floor[d], UNCHANGED <<completed, log>>
  PROVE  LogInv'
<1>1. ASSUME NEW e \in log PROVE LogOf(e)'
  <2>1. LogOf(e)
    BY DEF LogInv
  <2>2. CASE e.client = c
    BY <2>1, <2>2 DEF LogOf
  <2>3. CASE e.client # c
    BY <2>1, <2>3 DEF LogOf
  <2> QED
    BY <2>2, <2>3
<1> QED
  BY <1>1 DEF LogInv

\* An operation ends with a tag of its own if it is a write.
LEMMA LogEnds ==
  ASSUME TypeOK, LogInv, NEW c \in Clients, c \in busy, AboveFloor(c), NEW p, p.Tag_var \in Tag,
         c \in Writers => Phase[c] = SODAW_PUT_DATA /\ p = Pair(TagValue_var[c]),
         busy' = busy \ {c}, floor' = floor, completed' = LargerTag(p.Tag_var, completed),
         log' = log \cup {[client |-> c, floor |-> floor[c], TagValue_var |-> p]}
  PROVE  LogInv'
<1>0. PICK new : new = [client |-> c, floor |-> floor[c], TagValue_var |-> p]
  OBVIOUS
<1>1. completed \in AnyTag /\ p.Tag_var \in AnyTag
  BY DataTypes DEF TypeOK
<1>2. /\ AtLeast(completed', completed) /\ AtLeast(completed', p.Tag_var)
      /\ completed' \in AnyTag
  BY <1>1, LargerTagBounds
<1>3. c \in Writers =>
        WriterPair(c, p) /\ Pair(TagValue_var[c]) = p /\ isGreaterTag(p.Tag_var, floor[c])
  BY PairOfElement DEF AboveFloor
<1>4. LogOf(new)'
  BY <1>0, <1>2, <1>3 DEF LogOf, WriterPair, Names
<1>5. ASSUME NEW e \in log PROVE LogOf(e)'
  <2>1. LogOf(e) /\ e.TagValue_var.Tag_var \in AnyTag
    BY DataTypes DEF LogInv, LogOf
  <2>2. AtLeast(completed', e.TagValue_var.Tag_var)
    BY <1>1, <1>2, <2>1, TagTransitive DEF LogOf
  <2> QED
    BY <2>1, <2>2 DEF LogOf
<1>6. ASSUME NEW e \in log, e.client \in Writers, c \in Writers,
             e.TagValue_var.Tag_var = p.Tag_var
      PROVE  FALSE
  <2>1. LogOf(e) /\ WriterPair(e.client, e.TagValue_var)
    BY <1>6 DEF LogInv, LogOf
  <2>2. e.client = c
    BY <1>3, <1>6, <2>1, WriterPairTypes, NameOwner
  <2>3. AtLeast(floor[c], p.Tag_var)
    BY <1>6, <2>1, <2>2 DEF LogOf
  <2> QED
    BY <1>3, <1>6, <2>3 DEF AtLeast
<1>7. \A e \in log' : e \in log \/ e = new
  BY <1>0
<1>8. new.client = c /\ new.TagValue_var = p
  BY <1>0
<1>9. ASSUME NEW e \in log', NEW f \in log', e.client \in Writers, f.client \in Writers,
             e.TagValue_var.Tag_var = f.TagValue_var.Tag_var
      PROVE  e = f
  <2>1. CASE e \in log /\ f \in log
    BY <1>9, <2>1 DEF LogInv
  <2>2. CASE e = new /\ f \in log
    BY <1>6, <1>8, <1>9, <2>2
  <2>3. CASE e \in log /\ f = new
    BY <1>6, <1>8, <1>9, <2>3
  <2> QED
    BY <1>7, <2>1, <2>2, <2>3
<1> QED
  BY <1>4, <1>5, <1>7, <1>9 DEF LogInv

-----------------------------------------------------------------------------
(* Steps of clients *)

\* A phase begins with nothing collected.
LEMMA ElementsAfresh ==
  ASSUME WrittenStays, NEW c \in Clients, ElementsWritten(c), rx_state'[c] = {},
         \A s \in Servers : replies'[c][s] = <<>>,
         \A i \in Incarnations, s \in Servers : \A m \in Messages(requests'[c][i][s]) :
           \/ m \in Messages(requests[c][i][s])
           \/ m.Phase = SODAW_PUT_DATA => IsWritten(Pair(m.TagValue_var))'
  PROVE  ElementsWritten(c)'
<1>1. ASSUME NEW i \in Incarnations, NEW s \in Servers, NEW m \in Messages(requests'[c][i][s]),
             m.Phase = SODAW_PUT_DATA
      PROVE  IsWritten(Pair(m.TagValue_var))'
  <2>1. CASE m \in Messages(requests[c][i][s])
    <3>1. IsWritten(Pair(m.TagValue_var))
      BY <1>1, <2>1 DEF ElementsWritten
    <3> QED
      BY <3>1 DEF WrittenStays
  <2> QED
    BY <1>1, <2>1
<1>2. \A s \in Servers : Messages(replies'[c][s]) = {}
  BY EmptyMessages
<1> QED
  BY <1>1, <1>2 DEF ElementsWritten

\* What a step of client c keeps of ValueInv.
ClientKeepsValues(c) == WrittenStays /\ ValueInvOf(c)' /\ LogInv'

LEMMA OtherWrittenStays ==
  ASSUME NEW c \in Clients, \A d \in Clients : d # c => Idle(d), log \subseteq log',
         c \in Writers /\ c \in busy /\ Phase[c] = SODAW_PUT_DATA =>
           \/ c \in busy' /\ Phase'[c] = SODAW_PUT_DATA /\ TagValue_var'[c] = TagValue_var[c]
           \/ \E e \in log' : e.client \in Writers /\ e.TagValue_var = Pair(TagValue_var[c])
  PROVE  WrittenStays
<1>1. ASSUME NEW w \in Writers \cap busy, Phase[w] = SODAW_PUT_DATA, w # c
      PROVE  /\ w \in busy' /\ Phase'[w] = SODAW_PUT_DATA
             /\ TagValue_var'[w] = TagValue_var[w]
  BY <1>1 DEF Clients, Idle, SameClient
<1> QED
  BY <1>1, WrittenGrows

LEMMA StartOperationValues ==
  ASSUME TypeOK, NEW c \in Clients, NEW phase \in {SODAW_GET_TAG, SODAW_FAST_GET_TAG_DATA},
         StartOperation(c, phase), ValueInvOf(c), LogInv
  PROVE  ClientKeepsValues(c)
<1>1. /\ phase \in Phases /\ phase \notin {SODAW_GET_DATA, SODAW_PUT_DATA}
      /\ Opnum[c] + 1 \in Nat /\ ToAll(TagOnly(ZeroTag)) \in [Servers -> TagValue]
  <2>1. TagOnly(ZeroTag) \in TagValue
    BY DataTypes
  <2> QED
    BY <2>1, DataTypes, ToAllType
    DEF TypeOK, SODAW_GET_TAG, SODAW_FAST_GET_TAG_DATA, SODAW_GET_DATA, SODAW_PUT_DATA
<1>2. /\ c \notin busy /\ busy' = busy \cup {c} /\ floor'[c] = completed
      /\ EnterPhase(c, phase, TagOnly(LowestTag))
      /\ SendToServers(c, Opnum[c] + 1, phase, ToAll(TagOnly(ZeroTag)))
      /\ UNCHANGED <<completed, log>> /\ \A d \in Clients : d # c => Idle(d)
  BY <1>1, StartOperationEffect
<1>3. Phase'[c] = phase /\ rx_state'[c] = {} /\ \A s \in Servers : replies'[c][s] = <<>>
  BY <1>2, EnterPhaseEffect
<1>4. WrittenStays
  BY <1>2, OtherWrittenStays
<1>5. \A i \in Incarnations, s \in Servers : \A m \in Messages(requests'[c][i][s]) :
        m \in Messages(requests[c][i][s]) \/ m.Phase = phase
  BY <1>1, <1>2, Broadcast
<1>6. ElementsWritten(c)'
  BY <1>1, <1>3, <1>4, <1>5, ElementsAfresh DEF ValueInvOf
<1>7. AboveFloor(c)'
  BY <1>1, <1>3 DEF AboveFloor
<1>8. LogInv'
  BY <1>2, LogStarts DEF Idle, SameClient
<1> QED
  BY <1>4, <1>6, <1>7, <1>8 DEF ClientKeepsValues, ValueInvOf

LEMMA WriterPutsDataValues ==
  ASSUME NoFailedWrite, TypeOK, NEW w \in Clients, WriterPutsData(w), ChannelInvOf(w), QueryInv(w),
         ValueInvOf(w), LogInv
  PROVE  /\ ClientKeepsValues(w)
         /\ WriterPair(w, Pair(TagValue_var'[w]))
         /\ isGreaterTag(TagValue_var'[w].Tag_var, floor[w])
         /\ TagValue_var'[w].Tag_var = newTag(w)
<1>1. PICK tv : tv = [TagOnly(newTag(w)) EXCEPT !.Value = <<w, Opnum[w]>>]
  OBVIOUS
<1>2. PICK payload : payload = [s \in Servers |-> [tv EXCEPT !.CodeIndex = s]]
  OBVIOUS
<1>3. /\ w \in Writers /\ HasQuorum(w) /\ Phase[w] = SODAW_GET_TAG
      /\ tv \in TagValue /\ tv.Tag_var = newTag(w)
      /\ EnterPhase(w, SODAW_PUT_DATA, tv) /\ payload \in [Servers -> TagValue]
      /\ SendToServers(w, Opnum[w], SODAW_PUT_DATA, payload)
      /\ UNCHANGED <<busy, Opnum, historyVars>> /\ \A d \in Clients : d # w => Idle(d)
  BY <1>1, <1>2, WriterPutsDataEffect
<1>4. tv.Value = <<w, Opnum[w]>>
  BY <1>1 DEF TagOnly
<1>5. \A s \in Servers : Pair(payload[s]) = Pair(tv)
  BY <1>2, <1>3 DEF Pair, TagValue
<1>6. w \in busy /\ InQuery(w)
  BY <1>3 DEF HasQuorum, InQuery
<1>7. /\ Phase'[w] = SODAW_PUT_DATA /\ TagValue_var'[w] = tv /\ rx_state'[w] = {}
      /\ \A s \in Servers : replies'[w][s] = <<>>
  <2>1. TagValue_var'[w] = tv
    BY <1>3 DEF EnterPhase, TypeOK
  <2>2. Phase'[w] = SODAW_PUT_DATA /\ rx_state'[w] = {} /\ \A s \in Servers : replies'[w][s] = <<>>
    BY <1>3, EnterPhaseEffect
  <2> QED
    BY <2>1, <2>2
<1>8. /\ SODAW_PUT_DATA \in Phases /\ Opnum[w] \in Nat /\ SODAW_PUT_DATA # SODAW_GET_TAG
      /\ SODAW_PUT_DATA # SODAW_GET_DATA
  BY DataTypes DEF TypeOK, SODAW_PUT_DATA, SODAW_GET_TAG, SODAW_GET_DATA
<1>9. WrittenStays
  BY <1>3, <1>8, OtherWrittenStays DEF historyVars
<1>10. IsWritten(Pair(tv))'
  <2>1. w \in Writers \cap busy' /\ Pair(TagValue_var'[w]) = Pair(tv)
    BY <1>3, <1>6, <1>7
  <2> QED
    BY <1>7, <2>1 DEF IsWritten, Pair
<1>11. ASSUME NEW i \in Incarnations, NEW s \in Servers, NEW m \in Messages(requests'[w][i][s])
      PROVE  \/ m \in Messages(requests[w][i][s])
             \/ m.Phase = SODAW_PUT_DATA => IsWritten(Pair(m.TagValue_var))'
  <2>1. \/ m \in Messages(requests[w][i][s])
        \/ m = [Opnum |-> Opnum[w], Phase |-> SODAW_PUT_DATA, TagValue_var |-> payload[s]]
    BY <1>3, <1>8, Broadcast
  <2>2. CASE m = [Opnum |-> Opnum[w], Phase |-> SODAW_PUT_DATA, TagValue_var |-> payload[s]]
    <3>1. Pair(m.TagValue_var) = Pair(tv)
      BY <1>5, <2>2
    <3> QED
      BY <1>10, <3>1 DEF IsWritten
  <2> QED
    BY <2>1, <2>2
<1>12. ElementsWritten(w)'
  BY <1>7, <1>9, <1>11, ElementsAfresh DEF ValueInvOf
<1>13. /\ TagValue_var[w].Tag_var \in Tag /\ floor[w] \in Tag
       /\ AtLeast(TagValue_var[w].Tag_var, floor[w])
  BY <1>3, <1>6, QuorumTag, QuorumFloor DEF TypeOK
<1>14. isGreaterTag(newTag(w), floor[w])
  BY <1>13 DEF newTag, isGreaterTag, AtLeast, Tag
<1>15. WriterPair(w, Pair(tv))
  <2>1. <<w, Opnum[w]>> \in Values
    <3>1. Opnum[w] \in 1..MaxOpnum[w]
      BY <1>3, <1>6, BoundsAssumption DEF TypeOK
    <3> QED
      BY <1>3, <3>1 DEF Values
  <2>2. /\ newTag(w) = [Version_num |-> TagValue_var[w].Tag_var.Version_num + 1,
                        Client_id |-> NameTag[w][incarnation[w]]]
        /\ TagValue_var[w].Tag_var.Version_num + 1 \in Nat \ {0}
    BY <1>13 DEF newTag, Tag
  <2>3. NameTag[w][incarnation[w]] \in Names(w)
    BY <1>3 DEF Names, TypeOK
  <2>4. newTag(w) \in [Version_num : Nat \ {0}, Client_id : Names(w)]
    BY <2>2, <2>3
  <2> QED
    BY <1>3, <1>4, <2>1, <2>4, PairOfElement DEF WriterPair
<1>16. AboveFloor(w)'
  BY <1>3, <1>7, <1>8, <1>14, <1>15 DEF AboveFloor, WriterPair, Names, Pair, historyVars
<1>17. LogInv'
  BY <1>3, LogFrame
<1> QED
  BY <1>3, <1>7, <1>9, <1>12, <1>14, <1>15, <1>16, <1>17 DEF ClientKeepsValues, ValueInvOf

LEMMA ReaderAsksForDataValues ==
  ASSUME NoFailedWrite, TypeOK, NEW r \in Clients, ReaderAsksForData(r), ChannelInvOf(r), QueryInv(r),
         ValueInvOf(r), LogInv
  PROVE  ClientKeepsValues(r)
<1>1. /\ r \in Readers /\ HasQuorum(r) /\ TagValue_var[r] \in TagValue
      /\ EnterPhase(r, SODAW_GET_DATA, TagValue_var[r])
      /\ SendToServers(r, Opnum[r], SODAW_GET_DATA, ToAll(TagValue_var[r]))
      /\ ToAll(TagValue_var[r]) \in [Servers -> TagValue]
      /\ UNCHANGED <<busy, historyVars>> /\ \A d \in Clients : d # r => Idle(d)
  BY ReaderAsksForDataEffect
<1>2. r \in busy /\ InQuery(r) /\ r \notin Writers
  BY <1>1, ReaderQuorum, ClientsAssumption DEF InQuery
<1>3. /\ Phase'[r] = SODAW_GET_DATA /\ TagValue_var'[r] = TagValue_var[r]
      /\ rx_state'[r] = {} /\ \A s \in Servers : replies'[r][s] = <<>>
  <2>1. TagValue_var'[r] = TagValue_var[r]
    BY <1>1 DEF EnterPhase, TypeOK
  <2>2. Phase'[r] = SODAW_GET_DATA /\ rx_state'[r] = {} /\ \A s \in Servers : replies'[r][s] = <<>>
    BY <1>1, EnterPhaseEffect
  <2> QED
    BY <2>1, <2>2
<1>4. SODAW_GET_DATA \in Phases /\ Opnum[r] \in Nat /\ SODAW_PUT_DATA # SODAW_GET_DATA
  BY DataTypes DEF TypeOK, SODAW_PUT_DATA, SODAW_GET_DATA
<1>5. WrittenStays
  BY <1>1, <1>2, OtherWrittenStays DEF historyVars
<1>6. \A i \in Incarnations, s \in Servers : \A m \in Messages(requests'[r][i][s]) :
        m \in Messages(requests[r][i][s]) \/ m.Phase = SODAW_GET_DATA
  BY <1>1, <1>4, Broadcast
<1>7. ElementsWritten(r)'
  BY <1>3, <1>4, <1>5, <1>6, ElementsAfresh DEF ValueInvOf
<1>8. AboveFloor(r)'
  BY <1>1, <1>2, <1>3, <1>4, QuorumFloor DEF AboveFloor, historyVars
<1>9. LogInv'
  BY <1>1, LogFrame
<1> QED
  BY <1>5, <1>7, <1>8, <1>9 DEF ClientKeepsValues, ValueInvOf

\* What a client that returns the pair p keeps.
LEMMA EndOperationValues ==
  ASSUME TypeOK, NEW c \in Clients, c \in busy, NEW phase, NEW tv, EndOperation(c, phase, tv),
         \A d \in Clients : d # c => Idle(d), tv.Tag_var \in Tag,
         c \in Writers => Phase[c] = SODAW_PUT_DATA /\ tv = TagValue_var[c],
         \A i \in Incarnations, s \in Servers : \A m \in Messages(requests'[c][i][s]) :
           m \in Messages(requests[c][i][s]) \/ m.Phase # SODAW_PUT_DATA,
         ValueInvOf(c), LogInv
  PROVE  ClientKeepsValues(c)
<1> DEFINE p == Pair(tv)
<1>1. /\ busy' = busy \ {c} /\ completed' = LargerTag(tv.Tag_var, completed)
      /\ log' = log \cup {[client |-> c, floor |-> floor[c], TagValue_var |-> p]}
      /\ EnterPhase(c, phase, TagOnly(LowestTag)) /\ floor' = floor
  BY DEF EndOperation, Pair
<1>2. p.Tag_var = tv.Tag_var
  BY PairOfElement
<1>3. c \in Writers => p = Pair(TagValue_var[c])
  OBVIOUS
<1> HIDE DEF p
<1>4. LogInv'
  BY <1>1, <1>2, <1>3, LogEnds DEF ValueInvOf
<1>5. WrittenStays
  <2>1. PICK e \in log' : e = [client |-> c, floor |-> floor[c], TagValue_var |-> p]
    BY <1>1
  <2> QED
    BY <1>1, <1>3, <2>1, OtherWrittenStays
<1>6. rx_state'[c] = {} /\ \A s \in Servers : replies'[c][s] = <<>>
  BY <1>1, EnterPhaseEffect
<1>7. ElementsWritten(c)'
  BY <1>5, <1>6, ElementsAfresh DEF ValueInvOf
<1>8. AboveFloor(c)'
  BY <1>1 DEF AboveFloor
<1> QED
  BY <1>4, <1>5, <1>7, <1>8 DEF ClientKeepsValues, ValueInvOf

LEMMA PutDataCompletesValues ==
  ASSUME TypeOK, NEW w \in Clients, PutDataCompletes(w), ChannelInvOf(w), PutInv(w),
         ValueInvOf(w), LogInv
  PROVE  ClientKeepsValues(w)
<1>1. /\ HasQuorum(w) /\ w \in busy /\ Phase[w] = SODAW_PUT_DATA /\ requests' = requests
      /\ EndOperation(w, SODAW_PUT_DATA, TagValue_var[w])
  BY DEF PutDataCompletes, HasQuorum
<1>2. \A d \in Clients : d # w => Idle(d)
  BY PutDataCompletesEffect
<1>3. TagValue_var[w].Tag_var \in Tag
  BY <1>1 DEF PutInv
<1> QED
  BY <1>1, <1>2, <1>3, EndOperationValues

LEMMA ReadInOnePhaseValues ==
  ASSUME TypeOK, NEW r \in Clients, ReadInOnePhase(r), ChannelInvOf(r), QueryInv(r),
         WrittenOf(r), ValueInvOf(r), LogInv
  PROVE  ClientKeepsValues(r)
<1>1. /\ HasQuorum(r) /\ r \in busy /\ InQuery(r) /\ r \in Readers /\ r \notin Writers
      /\ requests' = requests
  BY ClientsAssumption DEF ReadInOnePhase, HasQuorum, InQuery, WrittenOf, OnePhaseInv
<1>2. \A d \in Clients : d # r => Idle(d)
  BY ReadInOnePhaseEffect
<1>3. CASE Cardinality(rx_state[r]) = K
  <2>1. PICK tv : tv = [TagValue_var[r] EXCEPT !.Value = Decoded(rx_state[r])]
    OBVIOUS
  <2>2. EndOperation(r, SODAW_FAST_GET_TAG_DATA, tv)
    BY <1>3, <2>1 DEF ReadInOnePhase
  <2>3. tv.Tag_var = TagValue_var[r].Tag_var
    <3>1. TagValue_var[r] \in TagValue
      BY DEF TypeOK
    <3> QED
      BY <2>1, <3>1 DEF TagValue
  <2>4. tv.Tag_var \in Tag
    BY <1>1, <2>3, QuorumTag
  <2> QED
    BY <1>1, <1>2, <2>2, <2>4, EndOperationValues
<1>4. CASE Cardinality(rx_state[r]) # K
  <2>1. UNCHANGED <<busy, phaseVars, replies, historyVars>> /\ Idle(r)
    BY <1>4, ReadInOnePhaseEffect
  <2>2. WrittenStays
    BY <1>1, <1>2, <2>1, OtherWrittenStays DEF historyVars
  <2> QED
    BY <2>1, <2>2, ValueIdle, LogFrame DEF ClientKeepsValues
<1> QED
  BY <1>3, <1>4

\* What is relayed to a reader was written.
LEMMA RelayWritten ==
  ASSUME TypeOK, NEW r \in Clients, NEW s \in Servers, replies[r][s] # <<>>, r \in busy,
         Phase[r] = SODAW_GET_DATA, ChannelInvOf(r), ClientInv(r), ValueInvOf(r)
  PROVE  /\ IsWritten(Pair(Head(replies[r][s]).TagValue_var))
         /\ Head(replies[r][s]).TagValue_var.Tag_var \in Tag
         /\ r \in Readers /\ r \notin Writers
<1>1. PICK m \in Message : m = Head(replies[r][s])
  BY ReceiveType
<1>2. r \in Readers /\ r \notin Writers
  BY ClientsAssumption DEF ValueInvOf, AboveFloor
<1>3. m \in Messages(replies[r][s]) /\ m.Phase = SODAW_GET_DATA
  BY <1>1, ReceiveType DEF ChannelInvOf, InOrder, Current
<1>4. SODAW_GET_DATA # SODAW_GET_TAG
  BY DEF SODAW_GET_DATA, SODAW_GET_TAG
<1>5. m.TagValue_var.Tag_var \in Tag
  BY <1>1, RelayRecent
<1> QED
  BY <1>1, <1>2, <1>3, <1>4, <1>5 DEF ValueInvOf, ElementsWritten

LEMMA CollectRelayValues ==
  ASSUME TypeOK, NEW r \in Clients, NEW s \in Servers, CollectRelay(r, s), ChannelInvOf(r),
         ClientInv(r), ValueInvOf(r), LogInv
  PROVE  ClientKeepsValues(r)
<1>1. PICK m \in Message : m = Head(replies[r][s])
  BY ReceiveType DEF CollectRelay
<1>2. PICK tv \in TagValue : tv = m.TagValue_var
  BY <1>1 DEF Message
<1>3. /\ r \in busy /\ Phase[r] = SODAW_GET_DATA /\ replies[r][s] # <<>>
      /\ \A d \in Clients : d # r => Idle(d)
  BY CollectRelayEffect
<1>4. r \in Readers /\ r \notin Writers
  BY <1>3, RelayWritten
<1>5. IsWritten(Pair(tv)) /\ tv.Tag_var \in Tag
  BY <1>1, <1>2, <1>3, RelayWritten
<1>6. ASSUME replies' = [replies EXCEPT ![r][s] = Tail(replies[r][s])], NEW t \in Servers
      PROVE  Messages(replies'[r][t]) \subseteq Messages(replies[r][t])
  <2>1. replies'[r][t] = IF t = s THEN Tail(replies[r][s]) ELSE replies[r][t]
    BY <1>6 DEF TypeOK
  <2>2. Messages(Tail(replies[r][s])) \subseteq Messages(replies[r][s])
    BY <1>3, ReceiveType
  <2> QED
    BY <2>1, <2>2
<1>7. CASE IsSmallerThan(tv.Tag_var, TagValue_var[r].Tag_var)
  <2>1. /\ UNCHANGED <<busy, phaseVars, requests, historyVars>>
        /\ UNCHANGED <<Opnum, incarnation>>
        /\ replies' = [replies EXCEPT ![r][s] = Tail(replies[r][s])]
    BY <1>1, <1>2, <1>7, CollectRelayEffect
  <2>2. WrittenStays
    BY <1>3, <1>4, <2>1, OtherWrittenStays DEF historyVars
  <2>3. SameClient(r) /\ RequestsShrink(r)
    BY <2>1, SameShrinks DEF SameClient, RequestsShrink, phaseVars, historyVars
  <2>4. ElementsWritten(r)'
    BY <1>6, <2>1, <2>2, <2>3, ElementsFrame DEF ValueInvOf
  <2>5. AboveFloor(r)'
    BY <2>1 DEF ValueInvOf, AboveFloor, phaseVars, historyVars
  <2> QED
    BY <2>1, <2>2, <2>4, <2>5, LogFrame DEF ClientKeepsValues, ValueInvOf
<1> DEFINE rx == AddElement(rx_state[r], tv)
<1>8. CASE /\ ~ IsSmallerThan(tv.Tag_var, TagValue_var[r].Tag_var)
           /\ Cardinality(ElementsOf(rx, tv.Tag_var)) = K
  <2>1. PICK out : out = [TagOnly(tv.Tag_var) EXCEPT !.Value =
                            Decoded(ElementsOf(rx, tv.Tag_var))]
    OBVIOUS
  <2>2. /\ EndOperation(r, SODAW_READ_COMPLETE, out)
        /\ SendToServers(r, Opnum[r], SODAW_READ_COMPLETE, ToAll(TagOnly(ZeroTag)))
    BY <1>1, <1>2, <1>8, <2>1 DEF CollectRelay
  <2>3. out.Tag_var = tv.Tag_var
    BY <2>1 DEF TagOnly
  <2>4. /\ ToAll(TagOnly(ZeroTag)) \in [Servers -> TagValue] /\ Opnum[r] \in Nat
        /\ SODAW_READ_COMPLETE \in Phases /\ SODAW_READ_COMPLETE # SODAW_PUT_DATA
    BY DataTypes, ToAllType DEF TypeOK, SODAW_PUT_DATA, SODAW_READ_COMPLETE
  <2>5. \A i \in Incarnations, q \in Servers : \A n \in Messages(requests'[r][i][q]) :
          n \in Messages(requests[r][i][q]) \/ n.Phase = SODAW_READ_COMPLETE
    BY <2>2, <2>4, Broadcast
  <2> QED
    BY <1>3, <1>4, <1>5, <2>2, <2>3, <2>4, <2>5, EndOperationValues
<1>9. CASE /\ ~ IsSmallerThan(tv.Tag_var, TagValue_var[r].Tag_var)
            /\ Cardinality(ElementsOf(rx, tv.Tag_var)) # K
  <2>1. /\ rx_state' = [rx_state EXCEPT ![r] = rx]
        /\ UNCHANGED <<busy, Phase, TagValue_var, requests, historyVars>>
        /\ replies' = [replies EXCEPT ![r][s] = Tail(replies[r][s])]
    BY <1>1, <1>2, <1>9, CollectRelayEffect
  <2>2. rx_state'[r] = rx
    BY <2>1 DEF TypeOK
  <2>3. \A e \in rx : e \in rx_state[r] \/ e = tv
    BY DEF AddElement
  <2>4. WrittenStays
    BY <1>3, <1>4, <2>1, OtherWrittenStays DEF historyVars
  <2> HIDE DEF rx
  <2>5. \A e \in rx : IsWritten(Pair(e))
    BY <1>3, <1>4, <1>5, <2>3 DEF ValueInvOf, ElementsWritten
  <2>6. \A q \in Servers : \A n \in Messages(replies'[r][q]) :
          n.Phase # SODAW_GET_TAG => IsWritten(Pair(n.TagValue_var))
    BY <1>3, <1>4, <1>6, <2>1 DEF ValueInvOf, ElementsWritten
  <2>7. \A i \in Incarnations, q \in Servers : \A n \in Messages(requests'[r][i][q]) :
          n.Phase = SODAW_PUT_DATA => IsWritten(Pair(n.TagValue_var))
    BY <2>1 DEF ValueInvOf, ElementsWritten
  <2>8. ElementsWritten(r)'
    BY <1>3, <2>1, <2>2, <2>4, <2>5, <2>6, <2>7 DEF ElementsWritten, WrittenStays
  <2>9. AboveFloor(r)'
    BY <2>1 DEF ValueInvOf, AboveFloor, historyVars
  <2> QED
    BY <2>1, <2>4, <2>8, <2>9, LogFrame DEF ClientKeepsValues, ValueInvOf
<1> QED
  BY <1>7, <1>8, <1>9

LEMMA CollectReplyValues ==
  ASSUME TypeOK, NEW c \in Clients, NEW s \in Servers, CollectReply(c, s), ChannelInvOf(c),
         QueryInv(c), MessagesOf(c), ValueInvOf(c), LogInv, \A w \in Writers : AboveFloor(w)
  PROVE  ClientKeepsValues(c)
<1>1. PICK m \in Message : m = Head(replies[c][s])
  BY ReceiveType DEF CollectReply
<1>2. PICK tv \in TagValue : tv = m.TagValue_var
  BY <1>1 DEF Message
<1>3. /\ c \in busy /\ CountsReplies(c) /\ replies[c][s] # <<>>
      /\ \/ /\ Phase[c] = SODAW_PUT_DATA \/ HasReturned(c)
            /\ UNCHANGED <<TagValue_var, rx_state>>
         \/ /\ Phase[c] # SODAW_PUT_DATA
            /\ TagValue_var'[c] = IF IsSmallerThan(TagValue_var[c].Tag_var, tv.Tag_var)
                                    THEN TagOnly(tv.Tag_var) ELSE TagValue_var[c]
            /\ rx_state'[c] =
                 IF Phase[c] = SODAW_FAST_GET_TAG_DATA /\ StaysOnePhase(c, tv)
                   THEN AddChunk(rx_state[c], tv) ELSE {}
      /\ replies'[c][s] = Tail(replies[c][s])
      /\ \A t \in Servers : t # s => replies'[c][t] = replies[c][t]
      /\ UNCHANGED <<busy, Phase, requests, historyVars>>
      /\ \A d \in Clients : d # c => Idle(d)
  BY <1>1, <1>2, CollectReplyEffect
<1>4. /\ m \in Messages(replies[c][s])
      /\ \A t \in Servers : Messages(replies'[c][t]) \subseteq Messages(replies[c][t])
  BY <1>1, <1>3, ReceiveType
<1>5. m.Phase = Phase[c] /\ tv.Tag_var \in Tag
  BY <1>2, <1>4 DEF ChannelInvOf, InOrder, Current, MessagesOf
<1>6. WrittenStays
  BY <1>3, OtherWrittenStays DEF historyVars
<1>7. LogInv'
  BY <1>3, LogFrame
<1>8. AboveFloor(c)'
  BY <1>3 DEF ValueInvOf, AboveFloor, historyVars, CountsReplies
<1>9. ASSUME c \in Readers, NEW e \in rx_state'[c]
      PROVE  /\ IsWritten(Pair(e))
             /\ Phase[c] = SODAW_GET_DATA \/ e.Tag_var = TagValue_var'[c].Tag_var
  <2>1. CASE UNCHANGED <<TagValue_var, rx_state>>
    BY <1>3, <1>9, <2>1 DEF ValueInvOf, ElementsWritten
  <2>2. CASE ~ UNCHANGED <<TagValue_var, rx_state>>
    <3>1. /\ Phase[c] = SODAW_FAST_GET_TAG_DATA /\ StaysOnePhase(c, tv)
          /\ e \in rx_state[c] \/ e = tv
          /\ TagValue_var'[c] = IF IsSmallerThan(TagValue_var[c].Tag_var, tv.Tag_var)
                                  THEN TagOnly(tv.Tag_var) ELSE TagValue_var[c]
      BY <1>3, <1>9, <2>2 DEF AddChunk
    <3>2. IsWritten(Pair(tv))
      <4>1. m.Phase # SODAW_GET_TAG
        BY <1>5, <3>1 DEF SODAW_GET_TAG, SODAW_FAST_GET_TAG_DATA
      <4> QED
        BY <1>2, <1>3, <1>4, <1>9, <4>1 DEF ValueInvOf, ElementsWritten
    <3>3. TagOnly(tv.Tag_var).Tag_var = tv.Tag_var
      BY <1>5, DataTypes
    <3>4. e \in rx_state[c] =>
            IsWritten(Pair(e)) /\ e.Tag_var = TagValue_var[c].Tag_var /\ e.Tag_var \in Tag
      <4>1. ASSUME e \in rx_state[c]
            PROVE  IsWritten(Pair(e)) /\ e.Tag_var = TagValue_var[c].Tag_var
        BY <1>3, <1>9, <3>1, <4>1
        DEF ValueInvOf, ElementsWritten, SODAW_GET_DATA, SODAW_FAST_GET_TAG_DATA
      <4>2. ASSUME e \in rx_state[c] PROVE e.Tag_var \in Tag
        BY <4>1, <4>2, WrittenTypes, PairOfElement
      <4> QED
        BY <4>1, <4>2
    <3>5. CASE num_responses[c] > 0
      BY <3>1, <3>2, <3>3, <3>4, <3>5 DEF StaysOnePhase
    <3>6. CASE ~ (num_responses[c] > 0)
      <4>1. responders[c] = {}
        <5>1. num_responses[c] = Cardinality(responders[c]) /\ num_responses[c] \in Nat
          BY <1>3 DEF ChannelInvOf, Counted, TypeOK
        <5>2. IsFiniteSet(responders[c])
          BY ServersAssumption, FS_Subset DEF TypeOK
        <5> QED
          BY <3>6, <5>1, <5>2, FS_EmptySet
      <4>2. TagValue_var[c].Tag_var = LowestTag
        BY <1>3, <3>1, <4>1 DEF QueryInv, InQuery
      <4>3. LowestTag \notin Tag /\ IsSmallerThan(LowestTag, tv.Tag_var)
        BY <1>5 DEF LowestTag, Tag, IsSmallerThan
      <4> QED
        BY <3>1, <3>2, <3>3, <3>4, <4>2, <4>3
    <3> QED
      BY <3>5, <3>6
  <2> QED
    BY <2>1, <2>2
<1>10. ASSUME c \in Readers, NEW q \in Servers, NEW n \in Messages(replies'[c][q]),
              n.Phase # SODAW_GET_TAG
       PROVE  IsWritten(Pair(n.TagValue_var))
  BY <1>3, <1>4, <1>10 DEF ValueInvOf, ElementsWritten
<1>11. \A i \in Incarnations, q \in Servers : \A n \in Messages(requests'[c][i][q]) :
         n.Phase = SODAW_PUT_DATA => IsWritten(Pair(n.TagValue_var))
  BY <1>3 DEF ValueInvOf, ElementsWritten
<1>12. ElementsWritten(c)'
  BY <1>3, <1>6, <1>9, <1>10, <1>11 DEF ElementsWritten, WrittenStays
<1> QED
  BY <1>6, <1>7, <1>8, <1>12 DEF ClientKeepsValues, ValueInvOf

LEMMA ClientStepValues ==
  ASSUME NoFailedWrite, TypeOK, ChannelInv, OrderInv, WrittenInv, ValueInv, NEW c \in Clients,
         ClientStep(c), ~ KillClient(c)
  PROVE  ClientKeepsValues(c)
<1>1. /\ ChannelInvOf(c) /\ QueryInv(c) /\ PutInv(c) /\ MessagesOf(c) /\ ClientInv(c)
      /\ WrittenOf(c) /\ ValueInvOf(c) /\ LogInv /\ \A w \in Writers : AboveFloor(w)
  BY OrderIsClients
  DEF ChannelInv, ClientInv, OrderInvOf, WrittenInv, ValueInv, ValueInvOf, Clients
<1>2. CASE StartRead(c) \/ StartWrite(c)
  BY <1>1, <1>2, StartOperationValues DEF StartRead, StartWrite
<1>3. ASSUME NEW s \in Servers, CollectReply(c, s) PROVE ClientKeepsValues(c)
  BY <1>1, <1>3, CollectReplyValues
<1>4. ASSUME NEW s \in Servers, CollectRelay(c, s) PROVE ClientKeepsValues(c)
  BY <1>1, <1>4, CollectRelayValues
<1>5. CASE WriterPutsData(c)
  BY <1>1, <1>5, WriterPutsDataValues
<1>6. CASE PutDataCompletes(c)
  BY <1>1, <1>6, PutDataCompletesValues
<1>7. CASE ReaderAsksForData(c)
  BY <1>1, <1>7, ReaderAsksForDataValues
<1>8. CASE ReadInOnePhase(c)
  BY <1>1, <1>8, ReadInOnePhaseValues
<1>9. CASE emulateNewClient(c)
  <2>1. /\ UNCHANGED <<busy, phaseVars, netVars, historyVars>>
        /\ \A d \in Clients : d # c => Idle(d)
    BY <1>9, EmulateEffect
  <2>2. WrittenStays
    BY <2>1, OtherWrittenStays DEF phaseVars, historyVars
  <2>3. ElementsWritten(c)'
    BY <1>1, <2>1, <2>2 DEF ElementsWritten, WrittenStays, ValueInvOf, phaseVars, netVars
  <2>4. AboveFloor(c)'
    BY <1>1, <2>1 DEF AboveFloor, ValueInvOf, phaseVars, historyVars
  <2>5. LogInv'
    BY <1>1, <2>1, LogFrame
  <2> QED
    BY <2>2, <2>3, <2>4, <2>5 DEF ClientKeepsValues, ValueInvOf
<1> QED
  BY <1>2, <1>3, <1>4, <1>5, <1>6, <1>7, <1>8, <1>9 DEF ClientStep

-----------------------------------------------------------------------------
(* Every step *)

\* Nobody steps, or a client that sends and receives nothing is killed.
LEMMA ValueStill ==
  ASSUME ValueInv, UNCHANGED <<serverVars, busy, historyVars, replies>>,
         \A d \in Clients : SameClient(d) /\ RequestsShrink(d)
  PROVE  ValueInv'
<1>1. WrittenStays
  BY WrittenGrows DEF Clients, SameClient, historyVars
<1>2. \A d \in Clients : ValueInvOf(d)'
  BY <1>1, ValueFrame DEF ValueInv
<1>3. \A s \in Servers : ServerWritten(s)'
  BY <1>1, ServersStayWritten DEF ValueInv
<1>4. LogInv'
  BY LogFrame DEF ValueInv
<1> QED
  BY <1>2, <1>3, <1>4 DEF ValueInv

LEMMA ValueStep ==
  ASSUME NoFailedWrite, Prewritten, ~ (Fast /\ UseDisk), TypeOK, ChannelInv, ServerInv,
         OrderInv, WrittenInv, ValueInv, [Next]_vars
  PROVE  ValueInv'
<1>1. CASE UNCHANGED vars
  <2>1. /\ UNCHANGED <<serverVars, busy, historyVars, replies>>
        /\ \A d \in Clients : SameClient(d) /\ RequestsShrink(d)
    BY <1>1, SameShrinks DEF vars, phaseVars, netVars, historyVars, SameClient, RequestsShrink
  <2> QED
    BY <2>1, ValueStill
<1>2. ASSUME NEW c \in Clients, ClientStep(c) PROVE ValueInv'
  <2>1. CASE KillClient(c)
    <3>1. /\ UNCHANGED <<serverVars, busy, historyVars, replies>>
          /\ \A d \in Clients : SameClient(d)
      BY <2>1 DEF KillClient, SameClient, phaseVars, historyVars
    <3>2. \A d \in Clients : RequestsShrink(d)
      BY <2>1, KillShrinks
    <3> QED
      BY <3>1, <3>2, ValueStill
  <2>2. CASE ~ KillClient(c)
    <3>1. UNCHANGED serverVars /\ \A d \in Clients : d # c => Idle(d)
      BY <1>2, <2>2, ClientStepWritten DEF ClientKeepsWritten
    <3>2. WrittenStays /\ ValueInvOf(c)' /\ LogInv'
      BY <1>2, <2>2, ClientStepValues DEF ClientKeepsValues
    <3>3. \A d \in Clients : ValueInvOf(d)'
      BY <3>1, <3>2, ValueIdle DEF ValueInv
    <3>4. \A s \in Servers : ServerWritten(s)'
      BY <3>1, <3>2, ServersStayWritten DEF ValueInv
    <3> QED
      BY <3>2, <3>3, <3>4 DEF ValueInv
  <2> QED
    BY <2>1, <2>2
<1>3. ASSUME NEW s \in Servers, NEW c \in Clients, NEW i \in Incarnations, ServerStep(s, c, i)
      PROVE  ValueInv'
  BY <1>3, ServerStepValues
<1>4. ASSUME NEW s \in Servers, KillServer(s) PROVE ValueInv'
  <2>1. /\ UNCHANGED <<serverVars, busy, historyVars, replies>>
        /\ \A d \in Clients : SameClient(d) /\ RequestsShrink(d)
    BY <1>4, KillServerEffect, SameShrinks DEF Idle, RequestsShrink, netVars
  <2> QED
    BY <2>1, ValueStill
<1> QED
  BY <1>1, <1>2, <1>3, <1>4 DEF Next, AllDone

LEMMA ValueInit == Init => ValueInv
<1> SUFFICES ASSUME Init PROVE ValueInv
  OBVIOUS
<1>1. \A c \in Clients : ValueInvOf(c)
  BY EmptyMessages DEF Init, ValueInvOf, ElementsWritten, AboveFloor
<1>2. \A s \in Servers : ServerWritten(s)
  BY DEF Init, ServerWritten, IsWritten, InitialPair, Pair, TagOnly
<1> QED
  BY <1>1, <1>2 DEF Init, ValueInv, LogInv

\* Whatever travels, is stored, is collected or is logged was written: a value
\* never meets another value's tag.
THEOREM ValuesAreWritten ==
  ASSUME NoFailedWrite, Prewritten, ~ (Fast /\ UseDisk)
  PROVE  Spec => []VInv
<1>1. Init => VInv
  BY TypeInit, ChannelInit, OrderInit, WrittenInit, ValueInit DEF VInv, WInv, IInv
<1>2. VInv /\ [Next]_vars => VInv'
  BY TypeStep, ChannelStep, OrderStep, WrittenStep, ValueStep DEF VInv, WInv, IInv
<1> QED
  BY <1>1, <1>2, PTL DEF Spec

-----------------------------------------------------------------------------
(* The tagged register *)

\* The register's order is that of the store.
LEMMA RegisterTags ==
  /\ Register!NoTagValue = Pair(TagOnly(LowestTag)) /\ Register!InitialTagValue = InitialPair
  /\ Register!Clients = Clients
  /\ \A t, u : /\ Register!isGreaterTag(t, u) <=> isGreaterTag(t, u)
               /\ Register!AtLeast(t, u) <=> AtLeast(t, u)
               /\ Register!LargerTag(t, u) = LargerTag(t, u)
BY DEF Register!NoTagValue, Register!LowestTag, LowestTag, Register!InitialTagValue,
   Register!InitialTag, InitialTag, InitialPair, Pair, TagOnly, Register!Clients, Clients,
   Register!isGreaterTag, isGreaterTag, Register!AtLeast, AtLeast, Register!LargerTag, LargerTag

\* What a client operates on, and what a writer has chosen.
LEMMA ObjnameIs ==
  ASSUME NEW c \in Clients
  PROVE  /\ Objname[c] = IF c \in busy THEN TheObject ELSE NoObject
         /\ Objname[c] # NoObject <=> c \in busy
BY DEF Objname, TheObject, NoObject

LEMMA ChosenIs ==
  ASSUME VInv, NEW w \in Writers
  PROVE  /\ chosen[w] = IF w \in busy /\ Phase[w] = SODAW_PUT_DATA
                          THEN Pair(TagValue_var[w]) ELSE Pair(TagOnly(LowestTag))
         /\ chosen[w] # Pair(TagOnly(LowestTag)) <=> w \in busy /\ Phase[w] = SODAW_PUT_DATA
<1>1. chosen[w] = IF w \in busy /\ Phase[w] = SODAW_PUT_DATA
                    THEN Pair(TagValue_var[w]) ELSE Pair(TagOnly(LowestTag))
  BY DEF chosen
<1>2. ASSUME w \in busy, Phase[w] = SODAW_PUT_DATA
      PROVE  Pair(TagValue_var[w]) # Pair(TagOnly(LowestTag))
  <2>1. TagValue_var[w].Tag_var \in Tag
    BY <1>2, WriterPairTypes, PairOfElement
    DEF VInv, ValueInv, ValueInvOf, AboveFloor, Clients
  <2>2. TagOnly(LowestTag).Tag_var \notin Tag
    BY DEF TagOnly, LowestTag, Tag
  <2> QED
    BY <2>1, <2>2, PairOfElement
<1> QED
  BY <1>1, <1>2

\* The pairs a read may return, in the register and in the store.
LEMMA RegisterWritten ==
  ASSUME VInv, NEW p
  PROVE  p \in Register!Written(TheObject) <=> IsWritten(p)
<1>1. \A w \in Writers : Objname[w] = TheObject <=> w \in busy
  BY DEF Objname, Clients, TheObject, NoObject
<1>2. [o \in {TheObject} |-> log][TheObject] = log
  OBVIOUS
<1>3. p \in Register!Written(TheObject) <=>
        \/ p = Register!InitialTagValue
        \/ \E e \in log : e.client \in Writers /\ e.TagValue_var = p
        \/ \E w \in Writers : /\ Objname[w] = TheObject /\ chosen[w] # Register!NoTagValue
                              /\ chosen[w] = p
  BY <1>2 DEF Register!Written
<1>4. \A w \in Writers : (/\ Objname[w] = TheObject /\ chosen[w] # Register!NoTagValue
                          /\ chosen[w] = p) <=>
        w \in busy /\ Phase[w] = SODAW_PUT_DATA /\ Pair(TagValue_var[w]) = p
  BY <1>1, ChosenIs, RegisterTags
<1> QED
  BY <1>3, <1>4, RegisterTags DEF IsWritten

\* A writer keeps its choice as long as it puts, and has none otherwise.
LEMMA ChosenKept ==
  ASSUME NEW S, S \subseteq Writers,
         \A w \in S :
           \/ /\ w \in busy' <=> w \in busy
              /\ UNCHANGED <<Phase[w], TagValue_var[w]>>
           \/ /\ w \notin busy \/ Phase[w] # SODAW_PUT_DATA
              /\ w \notin busy' \/ Phase'[w] # SODAW_PUT_DATA
  PROVE  \A w \in S : chosen'[w] = chosen[w]
<1> SUFFICES ASSUME NEW w \in S PROVE chosen'[w] = chosen[w]
  OBVIOUS
<1>1. /\ chosen[w] = IF w \in busy /\ Phase[w] = SODAW_PUT_DATA
                       THEN Pair(TagValue_var[w]) ELSE Pair(TagOnly(LowestTag))
      /\ chosen'[w] = IF w \in busy' /\ Phase'[w] = SODAW_PUT_DATA
                       THEN Pair(TagValue_var'[w]) ELSE Pair(TagOnly(LowestTag))
  BY DEF chosen, Pair
<1> QED
  BY <1>1

LEMMA ChosenSame ==
  ASSUME \A w \in Writers : chosen'[w] = chosen[w]
  PROVE  chosen' = chosen
BY DEF chosen

\* What the other clients have chosen.
LEMMA OthersChosen ==
  ASSUME NEW c \in Clients, \A d \in Clients : d # c => Idle(d)
  PROVE  \A w \in Writers \ {c} : chosen'[w] = chosen[w]
<1>1. \A w \in Writers \ {c} : /\ w \in busy' <=> w \in busy
                               /\ UNCHANGED <<Phase[w], TagValue_var[w]>>
  BY DEF Clients, Idle, SameClient
<1> QED
  BY <1>1, ChosenKept

\* The steps the register does not see.
LEMMA Stutters ==
  ASSUME UNCHANGED <<busy, floor, completed, log>>,
         \A w \in Writers :
           \/ UNCHANGED <<Phase[w], TagValue_var[w]>>
           \/ Phase[w] # SODAW_PUT_DATA /\ Phase'[w] # SODAW_PUT_DATA
  PROVE  UNCHANGED Register!vars
<1>1. chosen' = chosen
  BY ChosenKept, ChosenSame
<1>2. Objname' = Objname
  BY DEF Objname
<1> QED
  BY <1>1, <1>2 DEF Register!vars

LEMMA InitRefines == Init => Register!Init
<1> SUFFICES ASSUME Init PROVE Register!Init
  OBVIOUS
<1>1. /\ Objname = [c \in Clients |-> NoObject]
      /\ chosen = [w \in Writers |-> Pair(TagOnly(LowestTag))]
  BY DEF Init, Objname, chosen
<1> QED
  BY <1>1, RegisterTags DEF Init, Register!Init, Register!InitialTag, InitialTag

LEMMA StartOperationRefines ==
  ASSUME VInv, NEW c \in Clients, NEW phase \in {SODAW_GET_TAG, SODAW_FAST_GET_TAG_DATA},
         StartOperation(c, phase)
  PROVE  Register!Begin(c, TheObject)
<1>1. phase \in Phases /\ phase # SODAW_PUT_DATA /\ TypeOK
  BY DataTypes
  DEF VInv, WInv, IInv, SODAW_GET_TAG, SODAW_FAST_GET_TAG_DATA, SODAW_PUT_DATA
<1>2. /\ c \notin busy /\ busy' = busy \cup {c} /\ Phase'[c] = phase
      /\ UNCHANGED <<completed, log>> /\ \A d \in Clients : d # c => Idle(d)
  BY <1>1, StartOperationEffect
<1>3. floor' = [floor EXCEPT ![c] = completed]
  BY DEF StartOperation
<1>4. \A w \in Writers : chosen'[w] = chosen[w]
  <2>1. c \in Writers => chosen'[c] = chosen[c]
    BY <1>1, <1>2 DEF chosen
  <2> QED
    BY <1>2, <2>1, OthersChosen
<1>5. Objname[c] = NoObject /\ Objname' = [Objname EXCEPT ![c] = TheObject]
  BY <1>2 DEF Objname
<1> QED
  BY <1>2, <1>3, <1>4, <1>5, ChosenSame DEF Register!Begin

\* The tag of a write is new: another writer signs with another name, and the
\* writer's own earlier tags are below its floor.
LEMMA NewTagIsNew ==
  ASSUME VInv, NEW w \in Writers, Phase[w] # SODAW_PUT_DATA, NEW p, WriterPair(w, p),
         w \in busy, isGreaterTag(p.Tag_var, floor[w]), NEW y, IsWritten(y)
  PROVE  y.Tag_var # p.Tag_var
<1> SUFFICES ASSUME y.Tag_var = p.Tag_var PROVE FALSE
  OBVIOUS
<1>1. p.Tag_var # InitialTag /\ p.Tag_var.Client_id \in Names(w)
  BY WriterPairTypes
<1>2. CASE y = InitialPair
  BY <1>1, <1>2 DEF InitialPair, Pair, TagOnly
<1>3. ASSUME NEW e \in log, e.client \in Writers, e.TagValue_var = y
      PROVE  FALSE
  <2>1. LogOf(e) /\ WriterPair(e.client, y)
    BY <1>3 DEF VInv, ValueInv, LogInv, LogOf
  <2>2. e.client = w
    BY <1>1, <1>3, <2>1, WriterPairTypes, NameOwner
  <2>3. AtLeast(floor[w], p.Tag_var)
    BY <1>3, <2>1, <2>2 DEF LogOf
  <2> QED
    BY <2>3 DEF AtLeast
<1>4. ASSUME NEW x \in Writers \cap busy, Phase[x] = SODAW_PUT_DATA, Pair(TagValue_var[x]) = y
      PROVE  FALSE
  <2>1. WriterPair(x, y)
    BY <1>4 DEF VInv, ValueInv, ValueInvOf, AboveFloor, Clients
  <2>2. x = w
    BY <1>1, <2>1, WriterPairTypes, NameOwner
  <2> QED
    BY <1>4, <2>2
<1> QED
  BY <1>2, <1>3, <1>4 DEF IsWritten

LEMMA WriterPutsDataRefines ==
  ASSUME NoFailedWrite, VInv, NEW w \in Writers, WriterPutsData(w)
  PROVE  Register!Choose(w)
<1>1. /\ TypeOK /\ ChannelInvOf(w) /\ QueryInv(w) /\ ValueInvOf(w) /\ LogInv /\ w \in Clients
  BY DEF VInv, WInv, IInv, ChannelInv, OrderInv, OrderInvOf, ValueInv, Clients
<1>2. /\ w \in busy /\ Phase[w] = SODAW_GET_TAG /\ Phase[w] # SODAW_PUT_DATA
  BY DEF WriterPutsData, HasQuorum, SODAW_GET_TAG, SODAW_PUT_DATA
<1>3. /\ UNCHANGED <<busy, historyVars>> /\ \A d \in Clients : d # w => Idle(d)
  BY <1>1, WriterPutsDataEffect
<1>4. Phase'[w] = SODAW_PUT_DATA
  BY <1>1 DEF WriterPutsData, EnterPhase, TypeOK
<1>5. PICK p : p = Pair(TagValue_var'[w])
  OBVIOUS
<1>6. WriterPair(w, p) /\ isGreaterTag(p.Tag_var, floor[w])
  BY <1>1, <1>5, WriterPutsDataValues, PairOfElement
<1>7. chosen[w] = Pair(TagOnly(LowestTag))
  BY <1>2, ChosenIs
<1>8. chosen'[w] = p /\ chosen' = [chosen EXCEPT ![w] = p]
  <2>1. chosen'[w] = p
    BY <1>2, <1>3, <1>4, <1>5 DEF chosen, Pair
  <2>2. \A v \in Writers \ {w} : chosen'[v] = chosen[v]
    BY <1>1, <1>3, OthersChosen
  <2> QED
    BY <2>1, <2>2 DEF chosen
<1>9. p \in [Tag_var : [Version_num : Nat \ {0},
                        Client_id : {NameTag[w][i] : i \in Incarnations}], Value : Values]
  <2>1. p = [Tag_var |-> p.Tag_var, Value |-> p.Value]
    BY <1>5 DEF Pair
  <2> QED
    BY <1>6, <2>1 DEF WriterPair, Names
<1>10. \A y \in Register!Written(Objname[w]) : y.Tag_var # p.Tag_var
  <2>1. Objname[w] = TheObject
    BY <1>1, <1>2, ObjnameIs
  <2> QED
    BY <1>2, <1>6, <2>1, NewTagIsNew, RegisterWritten
<1>11. Objname[w] # NoObject /\ Objname' = Objname
  BY <1>1, <1>2, <1>3, ObjnameIs DEF Objname
<1> QED
  BY <1>3, <1>6, <1>7, <1>8, <1>9, <1>10, <1>11, RegisterTags DEF Register!Choose, historyVars

\* What a client returns is the choice of its write, or a written pair above
\* the floor of its read.
LEMMA EndOperationRefines ==
  ASSUME VInv, NEW c \in Clients, c \in busy, NEW phase, NEW tv, EndOperation(c, phase, tv),
         \A d \in Clients : d # c => Idle(d),
         c \in Writers => Phase[c] = SODAW_PUT_DATA /\ tv = TagValue_var[c],
         c \in Readers => IsWritten(Pair(tv)) /\ AtLeast(tv.Tag_var, floor[c])
  PROVE  \/ Register!EndWrite(c) /\ c \in Writers
         \/ Register!EndRead(c) /\ c \in Readers
<1>1. PICK p : p = Pair(tv)
  OBVIOUS
<1>2. /\ busy' = busy \ {c} /\ completed' = LargerTag(p.Tag_var, completed)
      /\ log' = log \cup {[client |-> c, floor |-> floor[c], TagValue_var |-> p]}
      /\ floor' = floor
  BY <1>1 DEF EndOperation, Pair
<1>3. Objname[c] = TheObject /\ Objname[c] # NoObject
  BY ObjnameIs
<1>4. Objname' = [Objname EXCEPT ![c] = NoObject]
  BY <1>2 DEF Objname
<1>5. Register!End(c, p)
  <2>1. [o \in {TheObject} |-> completed'] =
          [[o \in {TheObject} |-> completed] EXCEPT ![TheObject] =
             Register!LargerTag(p.Tag_var, @)]
    BY <1>2, RegisterTags
  <2>2. [o \in {TheObject} |-> log'] =
          [[o \in {TheObject} |-> log] EXCEPT ![TheObject] =
             @ \cup {[client |-> c, floor |-> floor[c], TagValue_var |-> p]}]
    BY <1>2
  <2> QED
    BY <1>2, <1>3, <1>4, <2>1, <2>2 DEF Register!End
<1>6. \A w \in Writers \ {c} : chosen'[w] = chosen[w]
  BY OthersChosen
<1>7. CASE c \in Writers
  <2>1. chosen[c] = p /\ chosen[c] # Pair(TagOnly(LowestTag))
    BY <1>1, <1>7, ChosenIs
  <2>2. chosen'[c] = Pair(TagOnly(LowestTag))
    BY <1>2, <1>7 DEF chosen
  <2>3. chosen' = [chosen EXCEPT ![c] = Pair(TagOnly(LowestTag))]
    BY <1>6, <2>2 DEF chosen
  <2> QED
    BY <1>3, <1>5, <1>7, <2>1, <2>3, RegisterTags DEF Register!EndWrite
<1>8. CASE c \in Readers
  <2>1. chosen' = chosen
    BY <1>6, <1>8, ClientsAssumption, ChosenSame
  <2>2. p \in Register!Written(Objname[c])
    BY <1>1, <1>3, <1>8, RegisterWritten
  <2>3. Register!AtLeast(p.Tag_var, floor[c])
    BY <1>1, <1>8, RegisterTags, PairOfElement
  <2> QED
    BY <1>3, <1>5, <1>8, <2>1, <2>2, <2>3 DEF Register!EndRead
<1> QED
  BY <1>7, <1>8 DEF Clients

LEMMA PutDataCompletesRefines ==
  ASSUME VInv, NEW w \in Clients, PutDataCompletes(w)
  PROVE  Register!Next
<1>1. /\ w \in busy /\ Phase[w] = SODAW_PUT_DATA
      /\ EndOperation(w, SODAW_PUT_DATA, TagValue_var[w])
  BY DEF PutDataCompletes, HasQuorum
<1>2. \A d \in Clients : d # w => Idle(d)
  BY PutDataCompletesEffect DEF VInv, WInv, IInv
<1>3. w \notin Readers
  BY <1>1 DEF VInv, WInv, IInv, ChannelInv, ChannelInvOf, InOrder
<1>4. Register!EndWrite(w) /\ w \in Writers
  BY <1>1, <1>2, <1>3, EndOperationRefines
<1> QED
  BY <1>4 DEF Register!Next

\* A read of one phase decodes the elements of a quorum, all of one tag.
LEMMA ReadInOnePhaseRefines ==
  ASSUME NoFailedWrite, VInv, NEW r \in Clients, ReadInOnePhase(r)
  PROVE  Register!Next \/ UNCHANGED Register!vars
<1>1. /\ HasQuorum(r) /\ r \in busy /\ Phase[r] = SODAW_FAST_GET_TAG_DATA /\ InQuery(r)
      /\ TypeOK /\ ChannelInvOf(r) /\ QueryInv(r) /\ WrittenOf(r) /\ ValueInvOf(r) /\ LogInv
      /\ \A w \in Writers : AboveFloor(w)
  BY DEF ReadInOnePhase, HasQuorum, InQuery, VInv, WInv, IInv, ChannelInv, OrderInv, OrderInvOf,
     WrittenInv, ValueInv, ValueInvOf, Clients
<1>2. r \in Readers /\ r \notin Writers
  BY <1>1, ClientsAssumption DEF WrittenOf, OnePhaseInv
<1>3. \A d \in Clients : d # r => Idle(d)
  BY <1>1, ReadInOnePhaseEffect
<1>4. PICK t : t = TagValue_var[r].Tag_var
  OBVIOUS
<1>5. t \in Tag /\ floor[r] \in Tag /\ AtLeast(t, floor[r]) /\ AboveInitial(floor[r])
  BY <1>1, <1>2, <1>4, QuorumTag, QuorumFloor DEF TypeOK, WrittenOf
<1>6. t # InitialTag
  <2>1. AboveInitial(t) /\ t \in AnyTag /\ InitialTag \in AnyTag
    BY <1>5, AboveKeeps, InitialTagIsTag
  <2> QED
    BY <2>1, TagTotal DEF AboveInitial
<1>7. \A e \in rx_state[r] : IsWritten(Pair(e)) /\ e.Tag_var = t
  BY <1>1, <1>2, <1>4 DEF ValueInvOf, ElementsWritten, SODAW_GET_DATA, SODAW_FAST_GET_TAG_DATA
<1>8. CASE Cardinality(rx_state[r]) = K
  <2>1. PICK tv : tv = [TagValue_var[r] EXCEPT !.Value = Decoded(rx_state[r])]
    OBVIOUS
  <2>2. EndOperation(r, SODAW_FAST_GET_TAG_DATA, tv)
    BY <1>8, <2>1 DEF ReadInOnePhase
  <2>3. tv.Tag_var = t /\ tv.Value = Decoded(rx_state[r])
    <3>1. TagValue_var[r] \in TagValue
      BY <1>1 DEF TypeOK
    <3> QED
      BY <1>4, <2>1, <3>1 DEF TagValue
  <2>4. IsWritten([Tag_var |-> t, Value |-> Decoded(rx_state[r])])
    BY <1>1, <1>6, <1>7, <1>8, DecodedWritten
  <2>5. Pair(tv) = [Tag_var |-> t, Value |-> Decoded(rx_state[r])]
    BY <2>3 DEF Pair
  <2>6. Register!EndRead(r)
    BY <1>1, <1>2, <1>3, <1>5, <2>2, <2>3, <2>4, <2>5, EndOperationRefines
  <2> QED
    BY <1>2, <2>6 DEF Register!Next
<1>9. CASE Cardinality(rx_state[r]) # K
  <2>1. UNCHANGED <<busy, phaseVars, historyVars>>
    BY <1>9 DEF ReadInOnePhase
  <2> QED
    BY <2>1, Stutters DEF phaseVars, historyVars
<1> QED
  BY <1>8, <1>9

\* A reader that waits for data decodes K elements of a tag it asked for or a
\* later one.
LEMMA CollectRelayRefines ==
  ASSUME NoFailedWrite, VInv, NEW r \in Clients, NEW s \in Servers, CollectRelay(r, s)
  PROVE  Register!Next \/ UNCHANGED Register!vars
<1>1. /\ r \in busy /\ Phase[r] = SODAW_GET_DATA /\ replies[r][s] # <<>> /\ TypeOK
      /\ ChannelInvOf(r) /\ ClientInv(r) /\ WrittenOf(r) /\ ValueInvOf(r) /\ LogInv
      /\ \A w \in Writers : AboveFloor(w)
  BY OrderIsClients
  DEF CollectRelay, VInv, WInv, IInv, ChannelInv, WrittenInv, ValueInv, ValueInvOf, Clients
<1>2. \A d \in Clients : d # r => Idle(d)
  BY <1>1, CollectRelayEffect
<1>3. PICK tv \in TagValue : tv = Head(replies[r][s]).TagValue_var
  BY <1>1, RelayRecent
<1>4. /\ IsWritten(Pair(tv)) /\ tv.Tag_var \in Tag /\ r \in Readers /\ r \notin Writers
      /\ ~ IsSmallerThan(tv.Tag_var, TagValue_var[r].Tag_var)
  BY <1>1, <1>3, RelayWritten, RelayRecent, NoDiskErrors
<1>5. PICK t : t = tv.Tag_var
  OBVIOUS
<1>6. AtLeast(t, floor[r]) /\ t # InitialTag
  <2>1. PICK u \in AnyTag : u = TagValue_var[r].Tag_var
    BY <1>1, DataTypes DEF TypeOK
  <2>2. /\ t \in AnyTag /\ floor[r] \in AnyTag /\ InitialTag \in AnyTag
        /\ AtLeast(u, floor[r]) /\ AboveInitial(u)
    BY <1>1, <1>4, <1>5, <2>1, DataTypes DEF TypeOK, ValueInvOf, AboveFloor, WrittenOf
  <2>3. AtLeast(t, u)
    BY <1>4, <1>5, <2>1 DEF IsSmallerThan, AtLeast, isGreaterTag, AnyTag, Tag, LowestTag
  <2>4. AboveInitial(t)
    BY <2>2, <2>3, AboveKeeps
  <2> QED
    BY <2>2, <2>3, <2>4, TagTransitive, TagTotal DEF AboveInitial
<1>7. PICK elements : elements = ElementsOf(AddElement(rx_state[r], tv), t)
  OBVIOUS
<1>8. \A e \in elements : IsWritten(Pair(e)) /\ e.Tag_var = t
  <2>1. \A e \in elements : (e \in rx_state[r] \/ e = tv) /\ e.Tag_var = t
    BY <1>7 DEF ElementsOf, AddElement
  <2> QED
    BY <1>1, <1>4, <2>1 DEF ValueInvOf, ElementsWritten
<1>9. CASE Cardinality(elements) = K
  <2>1. PICK out : out = [TagOnly(t) EXCEPT !.Value = Decoded(elements)]
    OBVIOUS
  <2>2. EndOperation(r, SODAW_READ_COMPLETE, out)
    BY <1>3, <1>4, <1>5, <1>7, <1>9, <2>1 DEF CollectRelay
  <2>3. out.Tag_var = t /\ Pair(out) = [Tag_var |-> t, Value |-> Decoded(elements)]
    BY <2>1 DEF TagOnly, Pair
  <2>4. IsWritten([Tag_var |-> t, Value |-> Decoded(elements)])
    BY <1>1, <1>6, <1>8, <1>9, DecodedWritten
  <2>5. Register!EndRead(r)
    BY <1>1, <1>2, <1>4, <1>6, <2>2, <2>3, <2>4, EndOperationRefines
  <2> QED
    BY <1>4, <2>5 DEF Register!Next
<1>10. CASE Cardinality(elements) # K
  <2>1. UNCHANGED <<busy, Phase, TagValue_var, historyVars>>
    BY <1>3, <1>4, <1>5, <1>7, <1>10 DEF CollectRelay
  <2> QED
    BY <2>1, Stutters DEF historyVars
<1> QED
  BY <1>9, <1>10

LEMMA ClientStepRefines ==
  ASSUME NoFailedWrite, VInv, NEW c \in Clients, ClientStep(c)
  PROVE  Register!Next \/ UNCHANGED Register!vars
<1>1. TypeOK
  BY DEF VInv, WInv, IInv
<1>2. CASE StartRead(c) \/ StartWrite(c)
  <2>1. Register!Begin(c, TheObject)
    BY <1>2, StartOperationRefines DEF StartRead, StartWrite
  <2> QED
    BY <2>1, RegisterTags DEF Register!Next
<1>3. ASSUME NEW s \in Servers, CollectReply(c, s) PROVE UNCHANGED Register!vars
  <2>1. /\ UNCHANGED <<busy, Phase, historyVars>>
        /\ \/ Phase[c] # SODAW_PUT_DATA
           \/ UNCHANGED TagValue_var
        /\ \A d \in Clients : d # c => Idle(d)
    BY <1>1, <1>3, CollectReplyEffect
  <2>2. \A w \in Writers : \/ UNCHANGED <<Phase[w], TagValue_var[w]>>
                           \/ Phase[w] # SODAW_PUT_DATA /\ Phase'[w] # SODAW_PUT_DATA
    BY <2>1 DEF Clients, Idle, SameClient
  <2> QED
    BY <2>1, <2>2, Stutters DEF historyVars
<1>4. ASSUME NEW s \in Servers, CollectRelay(c, s)
      PROVE  Register!Next \/ UNCHANGED Register!vars
  BY <1>4, CollectRelayRefines
<1>5. CASE WriterPutsData(c)
  <2>1. Register!Choose(c) /\ c \in Writers
    BY <1>5, WriterPutsDataRefines DEF WriterPutsData
  <2> QED
    BY <2>1 DEF Register!Next
<1>6. CASE PutDataCompletes(c)
  BY <1>6, PutDataCompletesRefines
<1>7. CASE ReaderAsksForData(c)
  <2>1. /\ UNCHANGED <<busy, historyVars>> /\ c \notin Writers
        /\ \A d \in Clients : d # c => Idle(d)
    BY <1>1, <1>7, ReaderAsksForDataEffect, ClientsAssumption
  <2>2. \A w \in Writers : UNCHANGED <<Phase[w], TagValue_var[w]>>
    BY <2>1 DEF Clients, Idle, SameClient
  <2> QED
    BY <2>1, <2>2, Stutters DEF historyVars
<1>8. CASE ReadInOnePhase(c)
  BY <1>8, ReadInOnePhaseRefines
<1>9. CASE emulateNewClient(c) \/ KillClient(c)
  <2>1. UNCHANGED <<busy, phaseVars, historyVars>>
    BY <1>9 DEF emulateNewClient, KillClient
  <2> QED
    BY <2>1, Stutters DEF phaseVars, historyVars
<1> QED
  BY <1>2, <1>3, <1>4, <1>5, <1>6, <1>7, <1>8, <1>9 DEF ClientStep

LEMMA StepRefines ==
  ASSUME NoFailedWrite, VInv, [Next]_vars
  PROVE  [Register!Next]_(Register!vars)
<1>1. ASSUME UNCHANGED <<busy, phaseVars, historyVars>> PROVE UNCHANGED Register!vars
  BY <1>1, Stutters DEF phaseVars, historyVars
<1>2. ASSUME NEW s \in Servers, NEW c \in Clients, NEW i \in Incarnations,
             ServerStep(s, c, i)
      PROVE  UNCHANGED Register!vars
  BY <1>1, <1>2 DEF ServerStep
<1>3. ASSUME NEW s \in Servers, KillServer(s) PROVE UNCHANGED Register!vars
  BY <1>1, <1>3 DEF KillServer
<1>4. ASSUME AllDone \/ UNCHANGED vars PROVE UNCHANGED Register!vars
  BY <1>1, <1>4 DEF AllDone, vars
<1> QED
  BY <1>2, <1>3, <1>4, ClientStepRefines DEF Next

\* SODAW, and SODAW_FAST in memory, implement the tagged register that ABD
\* implements, although reads write nothing back: what they return was written,
\* above everything that had ended (soda_variations.go 32-273).
THEOREM Refinement ==
  ASSUME NoFailedWrite, Prewritten, ~ (Fast /\ UseDisk)
  PROVE  Spec => ImplementsRegister
<1>1. Init => Register!Init
  BY InitRefines
<1>2. VInv /\ [Next]_vars => [Register!Next]_(Register!vars)
  BY StepRefines
<1> QED
  BY <1>1, <1>2, ValuesAreWritten, PTL DEF Spec, ImplementsRegister, Register!Spec
=============================================================================
