---------------------------- MODULE EvaluationDriver ---------------------------
(****************************************************************************)
(* The trampoline of src/expression/driver.rs.  One evaluation of a bounded *)
(* batch is a Driver future.  Every `build` in progress is a frame; a frame *)
(* asks for an operand by putting the operand's frame into the one-place    *)
(* slot it shares with the driver and awaiting a oneshot channel.  The      *)
(* driver adopts the slot's frame on top of its stack and polls the top     *)
(* frame only.                                                              *)
(*                                                                          *)
(* A node of the expression is what it does to the driver: the operand      *)
(* evaluations it awaits, in order (a binary operation has two, a reduction *)
(* or a product asks for the same operand once per chunk), whether it can   *)
(* wait for I/O of its own (storage reads, occupancy streams) and whether   *)
(* it can fail by itself.  A batch is the sequence of leaves whose values   *)
(* it combines, so a value that reaches the wrong operation, twice or out   *)
(* of order, is a different batch.                                          *)
(****************************************************************************)
EXTENDS Naturals, Sequences

CONSTANTS
  Nodes,        \* the evaluations of the expressions, the root wrappers included
  Roots,        \* evaluate_batch's own frames, each awaits one whole expression
  Calls,        \* Calls[n]: the operand evaluations n awaits, in order
  Pausing,      \* the nodes that may await I/O of their own
  Fallible,     \* the nodes that may fail by themselves
  MaxFrames,    \* MAX_FRAMES
  Budget,       \* Tokio's cooperative budget for one poll of the task
  Partial,      \* Partial[n][k]: the leaves n has read after k of its operands
  Height        \* Height[n]: the frames that evaluating n needs

ASSUME GraphAssumption ==
  /\ Roots \subseteq Nodes
  /\ Calls \in [Nodes -> Seq(Nodes)]
  /\ \A r \in Roots : Calls[r] # <<>>
  /\ Pausing \subseteq Nodes
  /\ Fallible \subseteq Nodes

ASSUME BoundAssumption ==
  /\ MaxFrames \in Nat \ {0}
  /\ Budget \in Nat \ {0}

IsLeaf(n) == Calls[n] = <<>>

(* A leaf reads itself, an operation what its operands read.                *)
Leaves(n) == IF IsLeaf(n) THEN <<n>> ELSE Partial[n][Len(Calls[n])]

(* Partial is the in-order traversal of the expression.                     *)
ASSUME PartialAssumption ==
  \A n \in Nodes :
    /\ Partial[n][0] = <<>>
    /\ \A k \in 0..Len(Calls[n]) : Partial[n][k] \in Seq(Nodes)
    /\ \A k \in 1..Len(Calls[n]) :
         Partial[n][k] = Partial[n][k - 1] \o Leaves(Calls[n][k])

(* A leaf needs its own frame, an operation one more than its highest       *)
(* operand.                                                                 *)
ASSUME HeightAssumption ==
  \A n \in Nodes :
    /\ Height[n] \in Nat \ {0}
    /\ \A k \in 1..Len(Calls[n]) : Height[Calls[n][k]] < Height[n]
    /\ Height[n] = 1 \/ \E k \in 1..Len(Calls[n]) : Height[n] = Height[Calls[n][k]] + 1

--------------------------------------------------------------------------------
VARIABLES
  root,      \* the expression that is evaluated, fixed by the call
  phase,     \* where the Driver future is: see Phases
  frames,    \* Driver.frames, the last one on top
  slot,      \* Context.pending: empty or the one queued child
  receive,   \* what the root frame has sent on the driver's oneshot channel
  result,    \* what the Driver future returned to its caller
  budget,    \* cooperative budget left in this poll of the task
  burst,     \* frame polls made since the executor last polled the driver
  woken      \* whether the driver's task has been told to poll again

vars == <<root, phase, frames, slot, receive, result, budget, burst, woken>>

(* suspended: between two polls; polling: inside Driver::poll; draining:    *)
(* inside Driver::drop; gone: everything it owned has been released.        *)
Phases == {"suspended", "polling", "draining", "gone"}

NoReply == [tag |-> "none", leaves |-> <<>>]
Ok(leaves) == [tag |-> "ok", leaves |-> leaves]
Failed(n) == [tag |-> "error", leaves |-> <<n>>]
FrameLimit == [tag |-> "limit", leaves |-> <<>>]
NoMemory == [tag |-> "memory", leaves |-> <<>>]
Missing == [tag |-> "missing", leaves |-> <<>>]

Tags == {"none", "ok", "error", "limit", "memory", "missing"}
Replies == [tag : Tags, leaves : Seq(Nodes)]

(* run: may await I/O of its own before it continues; io: awaits it; ready: *)
(* that I/O has ended; child: awaits the reply of an operand.               *)
Stages == {"run", "io", "ready", "child"}

Frames == [node : Nodes, to : Nat, stage : Stages, next : Nat,
           got : Seq(Nodes), inbox : Replies]

(* The future of one `build`: its node, the position of the frame whose     *)
(* receiver gets its reply (0 is the driver's own) and its progress.        *)
NewFrame(n, to) ==
  [node |-> n, to |-> to, stage |-> "run", next |-> 0,
   got |-> <<>>, inbox |-> NoReply]

Init ==
  /\ root \in Roots
  /\ phase = "suspended"
  /\ frames = <<NewFrame(root, 0)>>
  /\ slot = <<>>
  /\ receive = NoReply
  /\ result = NoReply
  /\ budget = Budget
  /\ burst = 0
  /\ woken = TRUE

--------------------------------------------------------------------------------
(* One iteration of the loop in Driver::poll adopts the queued child, if    *)
(* any, and polls the top of the resulting stack.                           *)
Stack == frames \o slot
Depth == Len(Stack)
Top == Stack[Depth]

(* Faulty: the limit is met one frame too early, one frame too late.        *)
AtEarlyFrameLimit == Len(frames) + 1 = MaxFrames
AtLateFrameLimit == Len(frames) = MaxFrames + 1

AtFrameLimit == Len(frames) = MaxFrames

(* poll_proceed lets the iteration start.                                   *)
Proceeds == phase = "polling" /\ budget > 0

(* Faulty: an attempt that made progress is refunded.                       *)
BudgetRefunded == budget

(* made_progress keeps the unit of budget that poll_proceed took.           *)
BudgetSpent == budget - 1

Polls ==
  /\ Proceeds
  /\ Stack # <<>>
  /\ slot # <<>> => ~AtFrameLimit
  /\ burst' = burst + 1

(* A frame can run unless what it awaits is missing.                        *)
Runnable(f) == f.stage \in {"run", "ready"} \/ (f.stage = "child" /\ f.inbox.tag = "ok")

(* Faulty: the reply stays in the channel; the operands are exchanged.      *)
ResumedStale(f) ==
  IF f.stage = "child"
  THEN [f EXCEPT !.stage = "run", !.next = @ + 1, !.got = @ \o f.inbox.leaves]
  ELSE f
ResumedSwapped(f) ==
  IF f.stage = "child"
  THEN [f EXCEPT !.stage = "run", !.next = @ + 1,
                 !.got = f.inbox.leaves \o @, !.inbox = NoReply]
  ELSE f

(* The frame after `context.batch(..).await?` has returned an operand.      *)
Resumed(f) ==
  IF f.stage = "child"
  THEN [f EXCEPT !.stage = "run", !.next = @ + 1,
                 !.got = @ \o f.inbox.leaves, !.inbox = NoReply]
  ELSE f

(* Faulty: the last operand is evaluated first.                             *)
ReversedCall(f) == Calls[f.node][Len(Calls[f.node]) - f.next]

NextCall(f) == Calls[f.node][f.next + 1]

Replaced(f) == [Stack EXCEPT ![Depth] = f]

(* A frame that returns is popped; its reply goes to the receiver it holds  *)
(* the sender of.                                                           *)
Return(reply) ==
  LET below == SubSeq(Stack, 1, Depth - 1)
  IN /\ slot' = <<>>
     /\ budget' = BudgetSpent
     /\ IF Top.to \in DOMAIN below
        THEN /\ frames' = [below EXCEPT ![Top.to] = [@ EXCEPT !.inbox = reply]]
             /\ UNCHANGED receive
        ELSE /\ frames' = below
             /\ receive' = reply
     /\ UNCHANGED <<root, phase, result, woken>>

(* A leaf replies with its own values, an operation with its operands'.     *)
Value(f) == IF IsLeaf(f.node) THEN <<f.node>> ELSE f.got

--------------------------------------------------------------------------------
(* The executor polls the task, woken or not, with a fresh budget.          *)
Poll ==
  /\ phase = "suspended"
  /\ phase' = "polling"
  /\ budget' = Budget
  /\ burst' = 0
  /\ woken' = FALSE
  /\ UNCHANGED <<root, frames, slot, receive, result>>

(* Faulty: nobody is told to poll again.                                    *)
YieldUnwoken ==
  /\ phase = "polling"
  /\ budget = 0
  /\ phase' = "suspended"
  /\ UNCHANGED <<root, frames, slot, receive, result, budget, burst, woken>>

(* poll_proceed returns Pending and wakes the task itself.                  *)
Yield ==
  /\ phase = "polling"
  /\ budget = 0
  /\ phase' = "suspended"
  /\ woken' = TRUE
  /\ UNCHANGED <<root, frames, slot, receive, result, budget, burst>>

(* The queued child finds the stack full: it is dropped and the evaluation  *)
(* ends with an error.                                                      *)
RefuseFrame ==
  /\ Proceeds
  /\ slot # <<>>
  /\ AtFrameLimit
  /\ slot' = <<>>
  /\ result' = FrameLimit
  /\ phase' = "draining"
  /\ UNCHANGED <<root, frames, receive, budget, burst, woken>>

(* The stack cannot grow: the child is dropped and the evaluation ends with *)
(* another error.                                                           *)
RefuseMemory ==
  /\ Proceeds
  /\ slot # <<>>
  /\ ~AtFrameLimit
  /\ slot' = <<>>
  /\ result' = NoMemory
  /\ phase' = "draining"
  /\ UNCHANGED <<root, frames, receive, budget, burst, woken>>

(* The top frame starts I/O of its own: nothing is queued, so the driver    *)
(* returns Pending and the I/O holds the task's waker.                      *)
AwaitIo ==
  LET f == Resumed(Top)
  IN /\ Polls
     /\ Runnable(Top)
     /\ f.stage = "run"
     /\ f.node \in Pausing
     /\ frames' = Replaced([f EXCEPT !.stage = "io"])
     /\ slot' = <<>>
     /\ phase' = "suspended"
     /\ UNCHANGED <<root, receive, result, budget, woken>>

(* Faulty: the driver returns Pending without a look at the slot.           *)
RequestSuspends ==
  LET f == Resumed(Top)
  IN /\ Polls
     /\ Runnable(Top)
     /\ f.next < Len(Calls[f.node])
     /\ frames' = Replaced([f EXCEPT !.stage = "child"])
     /\ slot' = <<NewFrame(NextCall(f), Depth)>>
     /\ phase' = "suspended"
     /\ UNCHANGED <<root, budget, receive, result, woken>>

(* The top frame asks for its next operand: the child is queued, so the     *)
(* driver goes round its loop.                                              *)
Request ==
  LET f == Resumed(Top)
  IN /\ Polls
     /\ Runnable(Top)
     /\ f.next < Len(Calls[f.node])
     /\ frames' = Replaced([f EXCEPT !.stage = "child"])
     /\ slot' = <<NewFrame(NextCall(f), Depth)>>
     /\ budget' = BudgetSpent
     /\ UNCHANGED <<root, phase, receive, result, woken>>

(* The top frame has all its operands.                                      *)
Succeed ==
  LET f == Resumed(Top)
  IN /\ Polls
     /\ Runnable(Top)
     /\ f.next = Len(Calls[f.node])
     /\ Return(Ok(Value(f)))

(* The top frame fails by itself: a request that does not fit the operand,  *)
(* an operation that fails, a batch of the wrong length, a storage error.   *)
Fail ==
  /\ Polls
  /\ Runnable(Top)
  /\ Top.node \in Fallible
  /\ Return(Failed(Top.node))

(* The top frame's operand failed: `?` returns the error at once.           *)
Propagate ==
  /\ Polls
  /\ Top.stage = "child"
  /\ Top.inbox.tag = "error"
  /\ Return(Top.inbox)

(* The top frame still awaits and nothing is queued: the driver returns     *)
(* Pending.                                                                 *)
StayBlocked ==
  /\ Polls
  /\ ~Runnable(Top)
  /\ Top.inbox.tag # "error"
  /\ phase' = "suspended"
  /\ UNCHANGED <<root, frames, slot, receive, result, budget, woken>>

(* No frame is left: the driver returns what the root frame sent.           *)
Deliver ==
  /\ Proceeds
  /\ Stack = <<>>
  /\ result' = IF receive = NoReply THEN Missing ELSE receive
  /\ phase' = "draining"
  /\ UNCHANGED <<root, frames, slot, receive, budget, burst, woken>>

(* I/O that some frame awaits ends, well or badly, and wakes the task.      *)
CompleteIo ==
  \E i \in 1..Len(frames) :
    /\ phase \in {"suspended", "polling"}
    /\ frames[i].stage = "io"
    /\ frames' = [frames EXCEPT ![i] = [@ EXCEPT !.stage = "ready"]]
    /\ woken' = TRUE
    /\ UNCHANGED <<root, phase, slot, receive, result, budget, burst>>

(* The caller drops the future between two polls.                           *)
Cancel ==
  /\ phase = "suspended"
  /\ phase' = "draining"
  /\ UNCHANGED <<root, frames, slot, receive, result, budget, burst, woken>>

(* Faulty: the frames go from the root up, as Vec's own drop would do.      *)
ReleaseParent ==
  /\ phase = "draining"
  /\ slot = <<>>
  /\ frames # <<>>
  /\ frames' = Tail(frames)
  /\ UNCHANGED <<root, phase, slot, receive, result, budget, burst, woken>>

(* Driver::drop releases the queued child first, then the frames from the   *)
(* child to its parent.                                                     *)
ReleaseSlot ==
  /\ phase = "draining"
  /\ slot # <<>>
  /\ slot' = <<>>
  /\ UNCHANGED <<root, phase, frames, receive, result, budget, burst, woken>>

ReleaseFrame ==
  /\ phase = "draining"
  /\ slot = <<>>
  /\ frames # <<>>
  /\ frames' = SubSeq(frames, 1, Len(frames) - 1)
  /\ UNCHANGED <<root, phase, slot, receive, result, budget, burst, woken>>

Released ==
  /\ phase = "draining"
  /\ slot = <<>>
  /\ frames = <<>>
  /\ phase' = "gone"
  /\ UNCHANGED <<root, frames, slot, receive, result, budget, burst, woken>>

Iterate ==
  \/ RefuseFrame \/ RefuseMemory
  \/ AwaitIo \/ Request \/ Succeed \/ Fail \/ Propagate \/ StayBlocked \/ Deliver

Drop == ReleaseSlot \/ ReleaseFrame \/ Released

Next == Poll \/ Yield \/ Iterate \/ CompleteIo \/ Cancel \/ Drop

Spec == Init /\ [][Next]_vars

(* Driver::poll and Driver::drop run to their end; an executor polls a task *)
(* that was woken; I/O ends.  Nothing obliges the caller to cancel.         *)
Fairness ==
  /\ WF_vars(Yield \/ Iterate \/ Drop)
  /\ WF_vars(woken /\ Poll)
  /\ WF_vars(CompleteIo)

FairSpec == Spec /\ Fairness
--------------------------------------------------------------------------------
(* Every variable holds a value of its kind.                                *)
TypeOK ==
  /\ root \in Roots
  /\ phase \in Phases
  /\ frames \in Seq(Frames)
  /\ slot \in Seq(Frames)
  /\ receive \in Replies
  /\ result \in Replies
  /\ budget \in 0..Budget
  /\ burst \in Nat
  /\ woken \in BOOLEAN

(* The frames and the queued child are one chain of calls: each replies to  *)
(* the frame right below it, which asked for exactly it and has no other    *)
(* reply; at most one child is queued.  `Context::batch` therefore never    *)
(* finds the slot taken, and polling the top frame alone loses nothing.     *)
OneChain ==
  /\ Len(slot) \in {0, 1}
  /\ \A i \in 1..Depth : Stack[i].to = i - 1
  /\ \A i \in 1..(Depth - 1) :
       /\ Stack[i].stage = "child"
       /\ Stack[i].inbox = NoReply
       /\ Stack[i].next < Len(Calls[Stack[i].node])
       /\ Stack[i + 1].node = Calls[Stack[i].node][Stack[i].next + 1]

(* A value the caller receives combines the leaves of the expression, each  *)
(* once per use and in operand order, whatever the polls, the I/O and the   *)
(* sharing of operands were.  A caller that gets no value gets the error of *)
(* a node that failed, of the frame limit or of the allocation; never       *)
(* "result missing".                                                        *)
CompleteValue ==
  /\ result.tag = "ok" => result.leaves = Leaves(root)
  /\ result.tag # "missing"

(* The frame limit is exact: an evaluation never holds more frames than     *)
(* MaxFrames, an expression that needs more is never evaluated, and only    *)
(* such an expression is refused, because finished operands leave no frame. *)
FrameLimitIsExact ==
  /\ Len(frames) <= MaxFrames
  /\ result.tag = "ok" => Height[root] <= MaxFrames
  /\ result = FrameLimit => Height[root] > MaxFrames

(* A poll of the driver makes at most Budget frame polls before it returns  *)
(* to the executor, however many frames are ready to run.                   *)
BoundedPoll == burst <= Budget

(* A driver that returned Pending has somebody to wake it: it has asked to  *)
(* be polled again or some frame's I/O is in progress.                      *)
NoLostWakeup ==
  phase = "suspended" => woken \/ \E i \in 1..Len(frames) : frames[i].stage = "io"

(* A frame is destroyed only after everything it called: frames go from the *)
(* top, and only once no child is queued above them.                        *)
ChildBeforeParent ==
  [][Len(frames') < Len(frames) =>
       /\ slot' = <<>>
       /\ \A i \in 1..Len(frames') : frames'[i].node = frames[i].node
       /\ phase = "draining" => slot = <<>>]_vars

(* Polled when woken and with I/O that ends, an evaluation ends and releases*)
(* everything it owns.                                                      *)
Finishes == <>(phase = "gone")

--------------------------------------------------------------------------------
(* The refinement of InOrderEvaluation: what the evaluation holds is what   *)
(* its frames hold, from the root up, then the reply that is on its way.  An*)
(* error in flight has already released it.                                 *)
Held(s) ==
  LET held[i \in 0..Len(s)] ==
        IF i = 0 THEN <<>> ELSE held[i - 1] \o (s[i].got \o s[i].inbox.leaves)
  IN held

Failing ==
  \/ receive.tag = "error"
  \/ \E i \in 1..Depth : Stack[i].inbox.tag = "error"

Outcome ==
  IF result.tag = "ok" THEN "ok"
  ELSE IF Failing \/ phase \in {"draining", "gone"} THEN "abandoned"
  ELSE "open"

Reads ==
  CASE Outcome = "ok" -> result.leaves
    [] Outcome = "abandoned" -> <<>>
    [] Outcome = "open" -> Held(Stack)[Depth] \o receive.leaves

InOrder ==
  INSTANCE InOrderEvaluation WITH
    Orders <- {Leaves(r) : r \in Roots}, order <- Leaves(root), reads <- Reads, outcome <- Outcome

(* An evaluation reads its leaves one at a time in operand order and nothing*)
(* after a failure; only a complete one returns a value.                    *)
EvaluatesInOrder == InOrder!Spec
================================================================================
