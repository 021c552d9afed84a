-------------------------------- MODULE Tags --------------------------------
(***************************************************************************)
(* Version tags (applicationUtilities.go).  A tag is a version number and  *)
(* the id of the writer that chose it; tags are compared by version first  *)
(* and by the dictionary order of the ids second.  An id is modelled by    *)
(* its rank in the dictionary order of the ids of the deployment, so the   *)
(* comparison of strings is the comparison of natural numbers.  Rank 0 is  *)
(* the empty string, rank 1 the literal "writer-1" of the initial tag.     *)
(***************************************************************************)
EXTENDS Integers

Tag == [Version_num : Nat, Client_id : Nat]

\* Tag{"writer-1", 0}, which every server stores for an object never written.
InitialTag == [Version_num |-> 0, Client_id |-> 1]

\* Tag{"", -1}, from which the clients compute a maximum.
LowestTag == [Version_num |-> -1, Client_id |-> 0]

\* The tags a variable of the program may hold.
AnyTag == Tag \cup {LowestTag}

\* Mutant: the comparison turned round.
IsSmallerThan_swapped(t, x) ==
  \/ x.Version_num < t.Version_num
  \/ x.Version_num = t.Version_num /\ x.Client_id < t.Client_id

\* func (t *Tag) IsSmallerThan(x Tag) bool
IsSmallerThan(t, x) ==
  \/ t.Version_num < x.Version_num
  \/ t.Version_num = x.Version_num /\ t.Client_id < x.Client_id

\* func isGreaterTag(tag_in, tag_local Tag) bool
isGreaterTag(tag_in, tag_local) ==
  \/ tag_in.Version_num > tag_local.Version_num
  \/ /\ tag_in.Version_num = tag_local.Version_num
     /\ tag_in.Client_id > tag_local.Client_id

\* The two comparisons of the code, read as an order.
AtLeast(t, x) == ~ isGreaterTag(x, t)
LargerTag(t, x) == IF isGreaterTag(t, x) THEN t ELSE x
=============================================================================
