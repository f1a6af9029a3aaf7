----------------------------- MODULE BlockContents -----------------------------
(****************************************************************************)
(* What storage, sparse or dense, promises to callers: a map from every     *)
(* logical block to its values, absent blocks being zero.  A block write is *)
(* atomic and keeps the values it does not name, the writes of a task are   *)
(* applied in order and none twice, and a batch is read at one instant.     *)
(****************************************************************************)
EXTENDS Naturals, Sequences

CONSTANTS Tasks, Blocks, Offsets, Unread

VARIABLES
  contents,  \* contents[b][o]: the value at offset o of block b
  job,       \* job[t]: what t asks for, as storage has it
  written,   \* written[t]: the writes of t that have taken effect, in order
  answer     \* answer[t]: the batch t was given, or Unread

vars == <<contents, job, written, answer>>

Overwritten(values, patch) ==
  [o \in Offsets |-> IF o \in DOMAIN patch THEN patch[o] ELSE values[o]]

(* A scan writes the blocks it meets, any other task those it was given.    *)
Asked(t) ==
  CASE job[t].kind = "read" -> {}
    [] job[t].kind = "scan" -> [id : Blocks, patch : {job[t].patch}]
    [] OTHER ->
         {job[t].writes[k] : k \in DOMAIN job[t].writes \intersect {Len(written[t]) + 1}}

Init ==
  /\ written = [t \in Tasks |-> <<>>]
  /\ answer = [t \in Tasks |-> Unread]

Apply(t) ==
  \E write \in Asked(t) :
    /\ written' = [written EXCEPT ![t] = Append(@, write)]
    /\ contents' = [contents EXCEPT ![write.id] = Overwritten(@, write.patch)]
    /\ UNCHANGED <<job, answer>>

Answer(t) ==
  /\ job[t].kind = "read"
  /\ answer[t] = Unread
  /\ answer' = [answer EXCEPT ![t] = [b \in job[t].wanted |-> contents[b]]]
  /\ UNCHANGED <<contents, job, written>>

Next == \E t \in Tasks : Apply(t) \/ Answer(t)

Spec == Init /\ [][Next]_vars
================================================================================
