---------------------------- MODULE CandidateUnion -----------------------------
(****************************************************************************)
(* Candidates of an expression (src/expression/traversal.rs): an iterative  *)
(* walk over the operands collects the request stream of every leaf, or     *)
(* stops at the first leaf with a preference, and the ordered streams are   *)
(* merged to one stream of bounded requests without duplicates.  A consumer *)
(* that needs no order, a reduction, follows single sources first, and      *)
(* takes the requests of the leaf it meets as they are stored.              *)
(*                                                                          *)
(* A leaf's stream is what request discovery promises: requests that        *)
(* ascend, and perhaps an error.  The union of the heads is the collate     *)
(* crate's try_union, modelled from how it is used.                         *)
(****************************************************************************)
EXTENDS Naturals, Sequences, SequencesExt, FiniteSetsExt

CONSTANTS
  Inputs,     \* records of an expression and what its leaves answer
  MaxBatch,   \* MAX_BATCH_ELEMENTS
  NodeLimit,  \* MAX_EXPRESSION_NODES
  Error       \* an item of a stream that is an error

(* An item of a stream is a request, a sequence of places, or an error.     *)
Item == Seq(Nat) \union {Error}
Requests(items) == {k \in DOMAIN items : items[k] # Error}
Named(items) == UNION {ToSet(items[k]) : k \in Requests(items)}

(* Requests are bounded and not empty; and places ascend through all of     *)
(* them, or just come once.                                                 *)
Bounded(items) == \A k \in Requests(items) : Len(items[k]) \in 1..MaxBatch
Rises(s) == \A i, j \in DOMAIN s : i < j => s[i] < s[j]
Ascending(items) ==
  \A k \in Requests(items) :
    /\ Rises(items[k])
    /\ \A j \in Requests(items) : j < k =>
         \A p \in ToSet(items[j]), q \in ToSet(items[k]) : p < q
Distinct(items) ==
  \A k \in Requests(items) :
    /\ IsInjective(items[k])
    /\ \A j \in Requests(items) : j < k => ToSet(items[j]) \intersect ToSet(items[k]) = {}

(* No expression is an operand of itself, however far down: operands are    *)
(* constructed first and never change, so of any nodes there is one that    *)
(* none of the others is an operand of.                                     *)
Acyclic(operands) ==
  \A nodes \in SUBSET DOMAIN operands : nodes # {} =>
    \E n \in nodes : \A k \in DOMAIN operands[n] : operands[n][k] \notin nodes

(* An input has a root, the operands of each node, the nodes that answer    *)
(* for themselves though they have operands, the stream of each node that   *)
(* answers, in order and as it is stored, the leaves with a preference and  *)
(* whether preference or any selection is asked for.                        *)
ASSUME CandidateAssumption ==
  /\ MaxBatch \in Nat \ {0}
  /\ NodeLimit \in Nat \ {0}
  /\ Error \notin Seq(Nat)
  /\ \A i \in Inputs :
       /\ i.root \in DOMAIN i.operands
       /\ Acyclic(i.operands)
       /\ \A n \in DOMAIN i.operands :
            /\ i.operands[n] \in Seq(DOMAIN i.operands)
            /\ i.operands[n] = <<>> \/ n \in i.whole =>
                 /\ i.streams[n] \in Seq(Item) /\ i.native[n] \in Seq(Item)
                 /\ Bounded(i.streams[n]) /\ Bounded(i.native[n])
                 /\ Ascending(i.streams[n]) /\ Distinct(i.native[n])
       /\ i.preferring \subseteq {n \in DOMAIN i.operands : i.operands[n] = <<>>}
       /\ ~(i.prefer /\ i.select)

VARIABLES
  input,    \* the expression
  phase,    \* "select", "walk", "merge", "single", "chosen", "ended" or "failed"
  step,     \* the node whose step is looked at
  pending,  \* the operands that the walk has yet to visit, the next one last
  visited,  \* the nodes visited
  found,    \* the leaves whose streams were collected, or the preferred one
  rest,     \* rest[k]: the items that stream k has yet to deliver
  coords,   \* coords[k]: the positions left of stream k's current request
  head,     \* head[k]: the position that stream k offers to the union
  over,     \* over[k]: stream k has ended
  output,   \* the positions of the request being packed
  emitted   \* the requests delivered

merging == <<rest, coords, head, over, output, emitted>>
walking == <<step, pending, visited, found>>
vars == <<input, phase, walking, merging>>

(* The walk begins at the root.                                             *)
AtRoot ==
  /\ step = input.root
  /\ pending = <<>>
  /\ visited = 1
  /\ found = <<>>
  /\ rest = <<>> /\ coords = <<>> /\ head = <<>> /\ over = <<>>
  /\ output = <<>> /\ emitted = <<>>

Beginning == IF input.select THEN "select" ELSE "walk"

Init ==
  /\ input \in Inputs
  /\ phase = Beginning
  /\ AtRoot

--------------------------------------------------------------------------------
(* Step::Ready: a node without operands, or a dense one, whose candidates   *)
(* are the slice itself, whatever its operands hold.                        *)
IsLeaf(n) == input.operands[n] = <<>> \/ (~input.prefer /\ n \in input.whole)

(* Selection::Source: the node refers to its one operand.                   *)
Refers(n) == ~IsLeaf(n) /\ Len(input.operands[n]) = 1

(* `selection`: from source to source, none of which has two operands...    *)
Follow ==
  /\ phase = "select"
  /\ Refers(step) /\ visited < NodeLimit
  /\ step' = Head(input.operands[step])
  /\ visited' = visited + 1
  /\ UNCHANGED <<input, phase, pending, found, merging>>

RefuseSource ==
  /\ phase = "select"
  /\ Refers(step) /\ visited = NodeLimit
  /\ phase' = "failed"
  /\ UNCHANGED <<input, walking, merging>>

(* ... to one that answers with its requests as they are stored...          *)
Select ==
  /\ phase = "select" /\ IsLeaf(step)
  /\ phase' = "single"
  /\ found' = <<step>>
  /\ rest' = <<input.native[step]>>
  /\ UNCHANGED <<input, step, pending, visited, coords, head, over, output, emitted>>

(* ... or to an operation, which answers in order, by a walk of its own.    *)
Branch ==
  /\ phase = "select" /\ ~IsLeaf(step) /\ ~Refers(step)
  /\ phase' = "walk"
  /\ visited' = 1
  /\ UNCHANGED <<input, step, pending, found, merging>>

--------------------------------------------------------------------------------
(* Step::Sources.                                                           *)
Sources(n) == IF IsLeaf(n) THEN <<>> ELSE input.operands[n]

(* Faulty: the last operand is visited first.                               *)
PushedForward(n) == pending \o Sources(n)

(* The first operand is on top.                                             *)
Pushed(n) == pending \o Reverse(Sources(n))

(* The closure of `ordered` collects every leaf, that of `preferred` the    *)
(* one whose answer is Some.                                                *)
Consumes(n) == IsLeaf(n) /\ (input.prefer => n \in input.preferring)
Collected == IF Consumes(step) THEN Append(found, step) ELSE found
Stops == input.prefer /\ Consumes(step)

Visit ==
  /\ phase = "walk" /\ ~Stops
  /\ Pushed(step) # <<>> /\ visited < NodeLimit
  /\ found' = Collected
  /\ step' = Last(Pushed(step))
  /\ pending' = Front(Pushed(step))
  /\ visited' = visited + 1
  /\ UNCHANGED <<input, phase, merging>>

(* One node too many, or no memory for the pending operands or the stream.  *)
RefuseWalk ==
  /\ phase = "walk" /\ ~Stops
  /\ (Pushed(step) # <<>> /\ visited = NodeLimit) \/ ~IsLeaf(step) \/ Consumes(step)
  /\ phase' = "failed"
  /\ UNCHANGED <<input, walking, merging>>

(* The walk ends: one stream is handed on as it is, several are merged.     *)
EndWalk ==
  /\ phase = "walk"
  /\ Stops \/ Pushed(step) = <<>>
  /\ found' = Collected
  /\ LET streams == DOMAIN Collected
     IN /\ phase' = IF input.prefer THEN "chosen" ELSE IF Len(Collected) = 1 THEN "single" ELSE "merge"
        /\ rest' = [k \in streams |-> input.streams[Collected[k]]]
        /\ coords' = [k \in streams |-> <<>>]
        /\ head' = [k \in streams |-> <<>>]
        /\ over' = [k \in streams |-> FALSE]
  /\ UNCHANGED <<input, step, pending, visited, output, emitted>>

--------------------------------------------------------------------------------
Streams == DOMAIN rest

(* The single stream delivers its next item.                                *)
Forward ==
  /\ phase = "single"
  /\ IF rest[1] = <<>> THEN phase' = "ended" /\ UNCHANGED <<rest, emitted>>
     ELSE IF Head(rest[1]) = Error THEN phase' = "failed" /\ UNCHANGED <<rest, emitted>>
     ELSE /\ emitted' = Append(emitted, Head(rest[1]))
          /\ rest' = [rest EXCEPT ![1] = Tail(@)]
          /\ UNCHANGED phase
  /\ UNCHANGED <<input, walking, coords, head, over, output>>

Wanting(k) == phase = "merge" /\ head[k] = <<>> /\ ~over[k]

(* merge's adapter of one stream: the next position of its request...       *)
NextPosition(k) ==
  /\ Wanting(k) /\ coords[k] # <<>>
  /\ head' = [head EXCEPT ![k] = <<Head(coords[k])>>]
  /\ coords' = [coords EXCEPT ![k] = Tail(@)]
  /\ UNCHANGED <<input, phase, walking, rest, over, output, emitted>>

(* ... or the next request, an error, the end.                              *)
NextRequest(k) ==
  /\ Wanting(k) /\ coords[k] = <<>> /\ rest[k] # <<>>
  /\ IF Head(rest[k]) = Error THEN phase' = "failed" /\ UNCHANGED <<coords, rest>>
     ELSE /\ coords' = [coords EXCEPT ![k] = Head(rest[k])]
          /\ rest' = [rest EXCEPT ![k] = Tail(@)]
          /\ UNCHANGED phase
  /\ UNCHANGED <<input, walking, head, over, output, emitted>>

EndStream(k) ==
  /\ Wanting(k) /\ coords[k] = <<>> /\ rest[k] = <<>>
  /\ over' = [over EXCEPT ![k] = TRUE]
  /\ UNCHANGED <<input, phase, walking, rest, coords, head, output, emitted>>

(* Faulty: the union waits for one stream only.                             *)
SomeHead == \E k \in Streams : head[k] # <<>> \/ over[k]

(* The union knows the head of every stream that has not ended.             *)
AllHeads == \A k \in Streams : head[k] # <<>> \/ over[k]
Offered == {head[k][1] : k \in {j \in Streams : head[j] # <<>>}}

Full == Len(output) = MaxBatch

(* The least head is delivered once, whichever streams offer it.            *)
Deliver ==
  /\ phase = "merge" /\ ~Full /\ AllHeads /\ Offered # {}
  /\ output' = Append(output, Min(Offered))
  /\ head' = [k \in Streams |-> IF head[k] = <<Min(Offered)>> THEN <<>> ELSE head[k]]
  /\ UNCHANGED <<input, phase, walking, rest, coords, over, emitted>>

(* A full request, or what is left when the union has ended.                *)
Emit ==
  /\ phase = "merge"
  /\ Full \/ (AllHeads /\ Offered = {} /\ output # <<>>)
  /\ emitted' = Append(emitted, output)
  /\ output' = <<>>
  /\ UNCHANGED <<input, phase, walking, rest, coords, head, over>>

End ==
  /\ phase = "merge"
  /\ AllHeads /\ Offered = {} /\ output = <<>>
  /\ phase' = "ended"
  /\ UNCHANGED <<input, walking, merging>>

Next ==
  \/ Follow \/ RefuseSource \/ Select \/ Branch
  \/ Visit \/ RefuseWalk \/ EndWalk
  \/ Forward \/ Deliver \/ Emit \/ End
  \/ \E k \in Streams : NextPosition(k) \/ NextRequest(k) \/ EndStream(k)

Spec == Init /\ [][Next]_vars

--------------------------------------------------------------------------------
(* The leaves of an expression in operand order, one for each use.          *)
Leaves ==
  LET leaves[n \in DOMAIN input.operands] ==
        IF IsLeaf(n) THEN <<n>>
        ELSE FlattenSeq([k \in DOMAIN input.operands[n] |-> leaves[input.operands[n][k]]])
  IN leaves

LeavesInOrder == Leaves[input.root]

(* The walk is that of a recursion it avoids: it collects every leaf in     *)
(* operand order, or finds the leftmost leaf with a preference, and visits  *)
(* no more nodes than the limit.                                            *)
WalkFollowsOperands ==
  /\ visited <= NodeLimit
  /\ phase \in {"merge", "single", "chosen", "ended"} =>
       found = IF ~input.prefer THEN LeavesInOrder
               ELSE LET preferring == {k \in DOMAIN LeavesInOrder : LeavesInOrder[k] \in input.preferring}
                    IN IF preferring = {} THEN <<>> ELSE <<LeavesInOrder[Min(preferring)]>>

(* Candidates come once, and in order unless they are a selection from one  *)
(* leaf; none is missing below one that was delivered in order, and a       *)
(* stream that ends well has delivered all of them: an error of any leaf    *)
(* surfaces.  Requests are bounded and never empty.                         *)
Delivered == FlattenSeq(emitted) \o output
Native == input.select /\ Len(found) = 1
StreamOf(n) == IF Native THEN input.native[n] ELSE input.streams[n]
Candidates == UNION {Named(StreamOf(found[k])) : k \in DOMAIN found}
UnionIsExact ==
  /\ \A k \in DOMAIN emitted : Len(emitted[k]) \in 1..MaxBatch
  /\ IsInjective(Delivered)
  /\ ~Native =>
       /\ \A k \in 1..(Len(Delivered) - 1) : Delivered[k] < Delivered[k + 1]
       /\ \A p \in Candidates : Delivered # <<>> /\ p <= Last(Delivered) => p \in ToSet(Delivered)
  /\ ToSet(Delivered) \subseteq Candidates
  /\ phase = "ended" =>
       /\ ToSet(Delivered) = Candidates
       /\ \A k \in DOMAIN found : Error \notin ToSet(StreamOf(found[k]))
================================================================================
