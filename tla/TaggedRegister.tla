--------------------------- MODULE TaggedRegister ---------------------------
(***************************************************************************)
(* What every algorithm of the store (ABD, SODAW, PRAKIS and their fast    *)
(* variants) promises its clients: each object is a register whose         *)
(* operations carry tags.  It is the specification behind the offline      *)
(* checks P1, P2 and P3 of src/analytics/safetyAnalyzer.go:                *)
(*   P1  the tag of an operation is at least the tag of every operation on *)
(*       the object that ended before it started;                          *)
(*   P2  two writes of an object never have the same tag;                  *)
(*   P3  a read returns the initial tag or a tag a write chose, with the   *)
(*       value of that write.                                              *)
(* The analyzer compares clock readings of a log; here an operation notes, *)
(* when it starts, the largest tag of the operations that have ended: its  *)
(* floor, the analyzer's running maximum at its start time.                *)
(***************************************************************************)
EXTENDS Tags

CONSTANTS
  Readers, Writers, Objects,
  NoObject,      \* the object of a client that executes no operation
  Ids,           \* Ids[w]: the client ids (ranks) writer w may sign a tag with
  Values,        \* what a write may store
  InitialValue   \* what an object holds before the first write

VARIABLES
  Objname,       \* Objname[c]: the object client c operates on, or NoObject
  floor,         \* floor[c]: the largest tag completed when c's operation began
  chosen,        \* chosen[w]: the pair writer w is writing, once it has chosen
  completed,     \* completed[o]: the largest tag of the operations that ended
  log            \* log[o]: the operations on o that ended

vars == <<Objname, floor, chosen, completed, log>>

Clients == Readers \cup Writers
InitialTagValue == [Tag_var |-> InitialTag, Value |-> InitialValue]
NoTagValue == [Tag_var |-> LowestTag, Value |-> InitialValue]

\* The pairs a read of object o may return.
Written(o) ==
  {InitialTagValue}
  \cup {e.TagValue_var : e \in {x \in log[o] : x.client \in Writers}}
  \cup {chosen[w] : w \in {x \in Writers : Objname[x] = o /\ chosen[x] # NoTagValue}}

Init ==
  /\ Objname = [c \in Clients |-> NoObject]
  /\ floor = [c \in Clients |-> InitialTag]
  /\ chosen = [w \in Writers |-> NoTagValue]
  /\ completed = [o \in Objects |-> InitialTag]
  /\ log = [o \in Objects |-> {}]

\* An operation starts: whatever ended before this moment bounds its tag.
Begin(c, o) ==
  /\ Objname[c] = NoObject
  /\ Objname' = [Objname EXCEPT ![c] = o]
  /\ floor' = [floor EXCEPT ![c] = completed[o]]
  /\ UNCHANGED <<chosen, completed, log>>

\* A writer fixes the tag of its write: above its floor, and new.
Choose(w) ==
  /\ Objname[w] # NoObject
  /\ chosen[w] = NoTagValue
  /\ UNCHANGED <<Objname, floor, completed, log>>
  /\ LET tv == chosen'[w] IN
       /\ chosen' = [chosen EXCEPT ![w] = tv]
       /\ tv \in [Tag_var : [Version_num : Nat \ {0}, Client_id : Ids[w]], Value : Values]
       /\ isGreaterTag(tv.Tag_var, floor[w])
       /\ \A y \in Written(Objname[w]) : y.Tag_var # tv.Tag_var

\* The operation of client c ends with the pair tv and is logged.
End(c, tv) ==
  /\ Objname' = [Objname EXCEPT ![c] = NoObject]
  /\ completed' = [completed EXCEPT ![Objname[c]] = LargerTag(tv.Tag_var, @)]
  /\ log' = [log EXCEPT ![Objname[c]] = @ \cup
       {[client |-> c, floor |-> floor[c], TagValue_var |-> tv]}]
  /\ UNCHANGED floor

EndWrite(w) ==
  /\ Objname[w] # NoObject
  /\ chosen[w] # NoTagValue
  /\ End(w, chosen[w])
  /\ chosen' = [chosen EXCEPT ![w] = NoTagValue]

EndRead(r) ==
  /\ Objname[r] # NoObject
  /\ \E tv \in Written(Objname[r]) :
       /\ AtLeast(tv.Tag_var, floor[r])
       /\ End(r, tv)
  /\ UNCHANGED chosen

Next ==
  \/ \E c \in Clients, o \in Objects : Begin(c, o)
  \/ \E w \in Writers : Choose(w)
  \/ \E w \in Writers : EndWrite(w)
  \/ \E r \in Readers : EndRead(r)

Spec == Init /\ [][Next]_vars
-----------------------------------------------------------------------------
(* The checks of the analyzer, over the log. *)

\* P1 (_safetyCheckP1): no operation has a tag smaller than that of an
\* operation that ended before it started.
P1 == \A o \in Objects : \A e \in log[o] : AtLeast(e.TagValue_var.Tag_var, e.floor)

\* P2 (_safetyCheckP2): the tags of the writes of an object are distinct.
P2 == \A o \in Objects : \A e, f \in log[o] :
        /\ e.client \in Writers /\ f.client \in Writers
        /\ e.TagValue_var.Tag_var = f.TagValue_var.Tag_var
        => e = f

\* P3 (_safetyCheckP3): a read returns a tag that was written, or the initial
\* one, and the value that was written with that tag.
P3 == \A o \in Objects : \A e \in log[o] :
        e.client \in Readers => e.TagValue_var \in Written(o)
=============================================================================
