------------------------- MODULE EvaluationDriverProofs ------------------------
(****************************************************************************)
(* The safety of EvaluationDriver for every expression, frame limit and     *)
(* budget: proofs of its type invariant, of the chain of calls on its stack,*)
(* of the value it delivers, of the frame limit, of the bound on one poll   *)
(* and of the absence of lost wakeups.                                      *)
(****************************************************************************)
EXTENDS EvaluationDriver, Integers, SequenceTheorems, WellFoundedInduction, TLAPS

--------------------------------------------------------------------------------
(* What one frame at position i of a stack knows: it holds the values of    *)
(* the operands it has consumed, a reply it has not consumed is that of the *)
(* operand it awaits, and its expression fits what root r leaves.            *)
FrameSound(r, f, i) ==
  /\ f.to = i - 1
  /\ f.next <= Len(Calls[f.node])
  /\ f.got = Partial[f.node][f.next]
  /\ Height[f.node] + i <= Height[r] + 1
  /\ f.stage # "child" => f.inbox = NoReply
  /\ f.stage = "child" => f.next < Len(Calls[f.node])
  /\ f.inbox # NoReply => f.inbox.tag \in {"ok", "error"}
  /\ f.inbox.tag = "ok" => f.inbox.leaves = Leaves(NextCall(f))

(* The frame awaits the evaluation of node n and has no reply yet.          *)
Awaits(f, n) ==
  /\ f.stage = "child"
  /\ f.inbox = NoReply
  /\ n = NextCall(f)

(* A stack of frames is a chain of calls that starts at the root.           *)
ChainSound(r, s) ==
  /\ \A i \in 1..Len(s) : FrameSound(r, s[i], i)
  /\ \A i \in 1..(Len(s) - 1) : Awaits(s[i], s[i + 1].node)
  /\ s # <<>> => s[1].node = r

(* A root is an evaluation like any other.                                  *)
LEMMA RootProperties ==
  ASSUME NEW r \in Roots
  PROVE  r \in Nodes /\ Len(Calls[r]) \in Nat /\ Height[r] \in Nat \ {0}
<1>1. r \in Nodes
  BY GraphAssumption
<1>2. Calls[r] \in Seq(Nodes)
  BY <1>1, GraphAssumption
<1> QED BY <1>1, <1>2, HeightAssumption

(* The operand that a node with operands left asks for.                     *)
LEMMA CallProperties ==
  ASSUME NEW n \in Nodes, NEW k \in Nat, k < Len(Calls[n])
  PROVE  /\ Calls[n][k + 1] \in Nodes
         /\ Height[n] \in Nat
         /\ Height[Calls[n][k + 1]] \in Nat
         /\ Height[Calls[n][k + 1]] < Height[n]
<1>1. Calls[n] \in Seq(Nodes) /\ Len(Calls[n]) \in Nat
  BY GraphAssumption
<1>2. k + 1 \in 1..Len(Calls[n])
  BY <1>1
<1>3. Calls[n][k + 1] \in Nodes
  BY <1>1, <1>2
<1> QED BY <1>2, <1>3, HeightAssumption

(* All of a sequence but its last element.                                  *)
LEMMA FrontOf ==
  ASSUME NEW S, NEW s \in Seq(S), s # <<>>
  PROVE  /\ SubSeq(s, 1, Len(s) - 1) \in Seq(S)
         /\ Len(SubSeq(s, 1, Len(s) - 1)) = Len(s) - 1
         /\ \A i \in 1..(Len(s) - 1) : SubSeq(s, 1, Len(s) - 1)[i] = s[i]
<1>1. ASSUME NEW n \in Nat, Len(s) = n + 1
      PROVE  /\ SubSeq(s, 1, n) \in Seq(S)
             /\ Len(SubSeq(s, 1, n)) = n
             /\ \A i \in 1..n : SubSeq(s, 1, n)[i] = s[i]
  BY <1>1
<1>2. PICK n \in Nat : Len(s) = n + 1
  <2>1. Len(s) \in Nat /\ 1 <= Len(s)
    OBVIOUS
  <2>2. Len(s) - 1 \in Nat /\ Len(s) = (Len(s) - 1) + 1
    BY <2>1
  <2> QED BY <2>2
<1>3. Len(s) - 1 = n
  BY <1>2
<1> QED BY <1>1, <1>2, <1>3

(* Dropping the top of a chain leaves a chain.                              *)
LEMMA ChainPop ==
  ASSUME NEW r \in Roots, NEW s \in Seq(Frames), ChainSound(r, s), s # <<>>
  PROVE  ChainSound(r, SubSeq(s, 1, Len(s) - 1))
<1> DEFINE t == SubSeq(s, 1, Len(s) - 1)
<1>1. /\ Len(t) = Len(s) - 1
      /\ \A i \in 1..(Len(s) - 1) : t[i] = s[i]
      /\ Len(s) \in Nat
  BY FrontOf
<1> HIDE DEF t
<1>2. \A i \in 1..Len(t) : FrameSound(r, t[i], i)
  BY <1>1 DEF ChainSound
<1>3. \A i \in 1..(Len(t) - 1) : Awaits(t[i], t[i + 1].node)
  <2> SUFFICES ASSUME NEW i \in 1..(Len(t) - 1) PROVE Awaits(t[i], t[i + 1].node)
    OBVIOUS
  <2>1. t[i] = s[i] /\ t[i + 1] = s[i + 1] /\ i \in 1..(Len(s) - 1)
    BY <1>1
  <2> QED BY <2>1 DEF ChainSound
<1>4. t # <<>> => t[1].node = r
  <2> SUFFICES ASSUME t # <<>> PROVE t[1].node = r
    OBVIOUS
  <2>1. t[1] = s[1]
    <3>1. t \in Seq(Frames)
      BY FrontOf DEF t
    <3> QED BY <1>1, <3>1
  <2> QED BY <2>1 DEF ChainSound
<1> QED BY <1>2, <1>3, <1>4 DEF ChainSound, t

(* Replacing the top by a sound frame of the same node leaves a chain.      *)
LEMMA ChainReplace ==
  ASSUME NEW r \in Roots, NEW s \in Seq(Frames), ChainSound(r, s), s # <<>>,
         NEW f \in Frames, FrameSound(r, f, Len(s)), f.node = s[Len(s)].node
  PROVE  /\ [s EXCEPT ![Len(s)] = f] \in Seq(Frames)
         /\ Len([s EXCEPT ![Len(s)] = f]) = Len(s)
         /\ [s EXCEPT ![Len(s)] = f][Len(s)] = f
         /\ ChainSound(r, [s EXCEPT ![Len(s)] = f])
<1> DEFINE t == [s EXCEPT ![Len(s)] = f]
<1>1. /\ t \in Seq(Frames)
      /\ Len(t) = Len(s)
      /\ t[Len(s)] = f
      /\ \A i \in 1..(Len(s) - 1) : t[i] = s[i]
  <2>1. Len(s) \in Nat /\ Len(s) \in 1..Len(s)
    OBVIOUS
  <2> QED BY <2>1, ExceptSeq
<1> HIDE DEF t
<1>2. \A i \in 1..Len(t) : FrameSound(r, t[i], i)
  BY <1>1 DEF ChainSound
<1>3. \A i \in 1..(Len(t) - 1) : Awaits(t[i], t[i + 1].node)
  <2> SUFFICES ASSUME NEW i \in 1..(Len(t) - 1) PROVE Awaits(t[i], t[i + 1].node)
    OBVIOUS
  <2>1. t[i] = s[i] /\ i \in 1..(Len(s) - 1) /\ t[i + 1].node = s[i + 1].node
    BY <1>1
  <2> QED BY <2>1 DEF ChainSound
<1>4. t # <<>> => t[1].node = r
  BY <1>1 DEF ChainSound
<1> QED BY <1>1, <1>2, <1>3, <1>4 DEF ChainSound, t

(* A new frame for the operand that the top awaits extends a chain.         *)
LEMMA ChainPush ==
  ASSUME NEW r \in Roots, NEW s \in Seq(Frames), ChainSound(r, s), s # <<>>,
         NEW n \in Nodes, Awaits(s[Len(s)], n),
         s[Len(s)].next < Len(Calls[s[Len(s)].node])
  PROVE  ChainSound(r, Append(s, NewFrame(n, Len(s))))
<1> DEFINE top == s[Len(s)]
           f == NewFrame(n, Len(s))
           t == Append(s, f)
<1>1. /\ Len(t) = Len(s) + 1
      /\ t[Len(s) + 1] = f
      /\ \A i \in 1..Len(s) : t[i] = s[i]
      /\ Len(s) \in Nat
  OBVIOUS
<1>2. top \in Frames /\ FrameSound(r, top, Len(s))
  BY DEF ChainSound
<1>3. Height[n] < Height[top.node] /\ Height[n] \in Nat /\ Height[top.node] \in Nat
  <2>1. top.node \in Nodes /\ top.next \in Nat
    BY <1>2 DEF Frames
  <2>2. n = Calls[top.node][top.next + 1]
    BY DEF Awaits, NextCall
  <2> HIDE DEF top
  <2> QED BY <2>1, <2>2, CallProperties DEF top
<1>4. FrameSound(r, f, Len(s) + 1)
  <2>1. Height[n] + (Len(s) + 1) <= Height[r] + 1
    BY <1>1, <1>2, <1>3, RootProperties DEF FrameSound
  <2>2. f.got = Partial[n][0]
    BY PartialAssumption DEF NewFrame
  <2> QED BY <2>1, <2>2, GraphAssumption DEF FrameSound, NewFrame, NoReply
<1>5. f.node = n
  BY DEF NewFrame
<1> HIDE DEF f, t
<1>6. \A i \in 1..Len(t) : FrameSound(r, t[i], i)
  BY <1>1, <1>4 DEF ChainSound
<1>7. \A i \in 1..(Len(t) - 1) : Awaits(t[i], t[i + 1].node)
  <2> SUFFICES ASSUME NEW i \in 1..(Len(t) - 1) PROVE Awaits(t[i], t[i + 1].node)
    OBVIOUS
  <2>1. CASE i = Len(s)
    BY <1>1, <1>5, <2>1
  <2>2. CASE i # Len(s)
    <3>1. t[i] = s[i] /\ t[i + 1] = s[i + 1] /\ i \in 1..(Len(s) - 1)
      BY <1>1, <2>2
    <3> QED BY <3>1 DEF ChainSound
  <2> QED BY <2>1, <2>2
<1>8. t # <<>> => t[1].node = r
  BY <1>1 DEF ChainSound
<1> QED BY <1>6, <1>7, <1>8 DEF ChainSound, t, f

(* Handing a reply to the top, which awaits it, leaves a chain.             *)
LEMMA ChainReply ==
  ASSUME NEW r \in Roots, NEW s \in Seq(Frames), ChainSound(r, s), s # <<>>,
         NEW n, Awaits(s[Len(s)], n), s[Len(s)].next < Len(Calls[s[Len(s)].node]),
         NEW v \in Replies, v.tag \in {"ok", "error"},
         v.tag = "ok" => v.leaves = Leaves(n)
  PROVE  /\ [s EXCEPT ![Len(s)] = [@ EXCEPT !.inbox = v]] \in Seq(Frames)
         /\ Len([s EXCEPT ![Len(s)] = [@ EXCEPT !.inbox = v]]) = Len(s)
         /\ [s EXCEPT ![Len(s)] = [@ EXCEPT !.inbox = v]][Len(s)].inbox = v
         /\ ChainSound(r, [s EXCEPT ![Len(s)] = [@ EXCEPT !.inbox = v]])
<1> DEFINE f == [s[Len(s)] EXCEPT !.inbox = v]
<1>1. Len(s) \in 1..Len(s) /\ s[Len(s)] \in Frames /\ FrameSound(r, s[Len(s)], Len(s))
  BY DEF ChainSound
<1>2. /\ f \in Frames
      /\ f.inbox = v
      /\ f.node = s[Len(s)].node /\ f.to = s[Len(s)].to /\ f.stage = s[Len(s)].stage
      /\ f.next = s[Len(s)].next /\ f.got = s[Len(s)].got
  BY <1>1 DEF Frames
<1> HIDE DEF f
<1>3. FrameSound(r, f, Len(s))
  BY <1>1, <1>2 DEF FrameSound, Awaits, NextCall
<1>4. [s EXCEPT ![Len(s)] = [@ EXCEPT !.inbox = v]] = [s EXCEPT ![Len(s)] = f]
  BY <1>1 DEF f
<1> QED BY <1>2, <1>3, <1>4, ChainReplace

(* What a frame has once it has taken the reply it awaited.                 *)
LEMMA ResumedSound ==
  ASSUME NEW r \in Roots, NEW f \in Frames, NEW i \in Nat, FrameSound(r, f, i), Runnable(f)
  PROVE  /\ Resumed(f) \in Frames
         /\ FrameSound(r, Resumed(f), i)
         /\ Resumed(f).node = f.node
         /\ Resumed(f).stage \in {"run", "ready"}
         /\ Resumed(f).inbox = NoReply
<1>1. CASE f.stage = "child"
  <2> DEFINE g == [f EXCEPT !.stage = "run", !.next = @ + 1,
                            !.got = @ \o f.inbox.leaves, !.inbox = NoReply]
  <2>1. /\ f.node \in Nodes /\ f.next \in Nat /\ f.next < Len(Calls[f.node])
        /\ f.got \in Seq(Nodes) /\ f.inbox.leaves \in Seq(Nodes)
        /\ f.got = Partial[f.node][f.next]
        /\ f.inbox.leaves = Leaves(NextCall(f))
    BY <1>1 DEF Frames, Replies, FrameSound, Runnable
  <2>2. /\ g.node = f.node /\ g.to = f.to /\ g.stage = "run" /\ g.next = f.next + 1
        /\ g.got = f.got \o f.inbox.leaves /\ g.inbox = NoReply
    BY DEF Frames
  <2>3. f.got \o f.inbox.leaves \in Seq(Nodes)
    BY <2>1
  <2>4. g \in Frames
    <3>1. NoReply \in Replies /\ "run" \in Stages /\ f.next + 1 \in Nat
      BY <2>1 DEF Stages, Replies, NoReply, Tags
    <3> QED BY <2>3, <3>1 DEF Frames
  <2>5. Partial[f.node][f.next + 1] = f.got \o f.inbox.leaves
    <3>1. f.next + 1 \in 1..Len(Calls[f.node]) /\ (f.next + 1) - 1 = f.next
      BY <2>1, GraphAssumption
    <3>2. Partial[f.node][f.next + 1]
            = Partial[f.node][(f.next + 1) - 1] \o Leaves(Calls[f.node][f.next + 1])
      BY <2>1, <3>1, PartialAssumption
    <3> QED BY <2>1, <3>1, <3>2 DEF NextCall
  <2>6. g.next <= Len(Calls[g.node])
    BY <2>1, <2>2, GraphAssumption
  <2> HIDE DEF g
  <2>7. FrameSound(r, g, i)
    BY <2>2, <2>5, <2>6 DEF FrameSound, NoReply
  <2>8. Resumed(f) = g
    BY <1>1 DEF Resumed, g
  <2> QED BY <2>2, <2>4, <2>7, <2>8
<1>2. CASE f.stage # "child"
  BY <1>2 DEF Resumed, Runnable, FrameSound
<1> QED BY <1>1, <1>2

--------------------------------------------------------------------------------
(* The inductive invariant behind the theorems: what is in the slot is new, *)
(* the frames and the slot are a chain of calls, the root replies once and  *)
(* last, and while the evaluation is in progress the top frame has what it  *)
(* awaits unless that is I/O.                                               *)
Active == phase \in {"suspended", "polling"}

Sent(reply) ==
  /\ reply.tag \in {"ok", "error"}
  /\ reply.tag = "ok" => reply.leaves = Leaves(root)

(* The slot holds at most one child, and a new one.                         *)
SlotSound ==
  /\ Len(slot) \in {0, 1}
  /\ slot # <<>> => slot[1].stage = "run"

(* The root's reply is the last thing the frames do.                        *)
RootReplies ==
  /\ Stack # <<>> => receive = NoReply
  /\ receive = NoReply \/ Sent(receive)

(* Something can always run, or awaits I/O, or is to be delivered.          *)
TopReady ==
  Active => /\ result = NoReply
            /\ Stack = <<>> => receive # NoReply
            /\ Stack # <<>> /\ Top.stage = "child" => Top.inbox # NoReply

ChainInv ==
  /\ TypeOK
  /\ SlotSound
  /\ ChainSound(root, Stack)
  /\ RootReplies
  /\ TopReady

(* The stack is the frames, with the queued child on top if there is one.   *)
LEMMA StackShape ==
  ASSUME NEW F \in Seq(Frames), NEW q \in Seq(Frames), Len(q) \in {0, 1}
  PROVE  /\ F \o q \in Seq(Frames)
         /\ q = <<>> => F \o q = F
         /\ q # <<>> => /\ F \o q = Append(F, q[1])
                        /\ F \o q # <<>>
                        /\ Len(F \o q) = Len(F) + 1
                        /\ (F \o q)[Len(F) + 1] = q[1]
                        /\ SubSeq(F \o q, 1, Len(F \o q) - 1) = F
<1>1. CASE q = <<>>
  BY <1>1, ConcatEmptySeq
<1>2. CASE q # <<>>
  <2>1. q[1] \in Frames /\ q = <<q[1]>>
    <3>1. Len(q) = 1 /\ q[1] \in Frames
      BY <1>2
    <3>2. /\ <<q[1]>> \in Seq(Frames) /\ Len(<<q[1]>>) = 1
          /\ \A i \in 1..1 : q[i] = <<q[1]>>[i]
      BY <3>1
    <3> QED BY <3>1, <3>2, SeqEqual
  <2>2. F \o q = Append(F, q[1])
    BY <2>1, AppendIsConcat
  <2>3. /\ Append(F, q[1]) \in Seq(Frames)
        /\ Append(F, q[1]) # <<>>
        /\ Len(Append(F, q[1])) = Len(F) + 1
        /\ \A i \in 1..Len(F) : Append(F, q[1])[i] = F[i]
        /\ Append(F, q[1])[Len(F) + 1] = q[1]
    BY <2>1, AppendProperties
  <2>4. SubSeq(Append(F, q[1]), 1, Len(Append(F, q[1])) - 1) = F
    <3> DEFINE s == Append(F, q[1])
               t == SubSeq(s, 1, Len(s) - 1)
    <3>1. /\ t \in Seq(Frames) /\ Len(t) = Len(s) - 1
          /\ \A i \in 1..(Len(s) - 1) : t[i] = s[i]
      BY <2>3, FrontOf
    <3>2. Len(s) - 1 = Len(F) /\ \A i \in 1..Len(F) : s[i] = F[i]
      BY <2>3
    <3> HIDE DEF s, t
    <3>3. Len(t) = Len(F) /\ \A i \in 1..Len(t) : t[i] = F[i]
      BY <3>1, <3>2
    <3>4. t = F
      BY <3>1, <3>3, SeqEqual
    <3> QED BY <3>4 DEF s, t
  <2> QED BY <1>2, <2>2, <2>3, <2>4
<1> QED BY <1>1, <1>2

(* A frame of the stack is a frame, its position a number.                  *)
LEMMA StackFacts ==
  ASSUME ChainInv
  PROVE  /\ Stack \in Seq(Frames)
         /\ Depth \in Nat
         /\ root \in Roots
         /\ Stack # <<>> => Depth \in 1..Depth /\ Top \in Frames /\ FrameSound(root, Top, Depth)
<1>1. Stack \in Seq(Frames)
  BY StackShape DEF ChainInv, SlotSound, TypeOK, Stack
<1> QED BY <1>1 DEF ChainInv, TypeOK, ChainSound, Depth, Top

(* The evaluation starts with the root's frame alone.                       *)
LEMMA InitChain == Init => ChainInv
<1> SUFFICES ASSUME Init PROVE ChainInv
  OBVIOUS
<1> DEFINE f == NewFrame(root, 0)
<1>1. NoReply \in Replies
  BY DEF NoReply, Replies, Tags
<1>0. root \in Roots /\ root \in Nodes
  BY RootProperties DEF Init
<1>2. f \in Frames /\ f.node = root /\ f.stage = "run" /\ f.inbox = NoReply
  BY <1>0, <1>1 DEF NewFrame, Frames, Stages
<1>3. FrameSound(root, f, 1)
  <2>1. root \in Nodes /\ Len(Calls[root]) \in Nat
    BY <1>0, RootProperties
  <2>2. Height[root] \in Nat /\ Partial[root][0] = <<>>
    BY <2>1, HeightAssumption, PartialAssumption
  <2> QED BY <2>1, <2>2 DEF FrameSound, NewFrame, NoReply
<1>4. Stack = <<f>> /\ Stack # <<>> /\ Len(Stack) = 1
  BY DEF Init, Stack
<1> HIDE DEF f
<1>5. ChainSound(root, Stack)
  BY <1>2, <1>3, <1>4 DEF ChainSound
<1>6. TypeOK
  BY <1>1, <1>2, BoundAssumption DEF Init, TypeOK, Phases, f
<1> QED BY <1>0, <1>1, <1>2, <1>4, <1>5, <1>6
    DEF ChainInv, SlotSound, RootReplies, TopReady, Init, Top, Depth

(* With an empty slot the stack is the frames.                              *)
LEMMA StackNext ==
  ASSUME frames' \in Seq(Frames), slot' = <<>>
  PROVE  Stack' = frames' /\ Depth' = Len(frames') /\ slot' \in Seq(Frames)
<1>1. frames' \o slot' = frames'
  BY ConcatEmptySeq
<1> QED BY <1>1 DEF Stack, Depth

(* A poll of the top ends in I/O of its own.                                *)
LEMMA AwaitIoChain == ChainInv /\ AwaitIo => ChainInv'
<1> SUFFICES ASSUME ChainInv, AwaitIo PROVE ChainInv'
  OBVIOUS
<1> DEFINE g == [Resumed(Top) EXCEPT !.stage = "io"]
<1>1. /\ Stack \in Seq(Frames) /\ Stack # <<>> /\ Depth \in Nat
      /\ Top \in Frames /\ FrameSound(root, Top, Depth) /\ Runnable(Top)
      /\ ChainSound(root, Stack) /\ root \in Roots
  BY StackFacts DEF AwaitIo, Polls, ChainInv
<1>2. /\ Resumed(Top) \in Frames /\ FrameSound(root, Resumed(Top), Depth)
      /\ Resumed(Top).node = Top.node /\ Resumed(Top).inbox = NoReply
  BY <1>1, ResumedSound
<1>3. /\ g \in Frames /\ FrameSound(root, g, Depth) /\ g.node = Top.node /\ g.stage = "io"
      /\ g.inbox = NoReply
  <2>1. /\ g \in Frames /\ g.node = Resumed(Top).node /\ g.to = Resumed(Top).to
        /\ g.next = Resumed(Top).next /\ g.got = Resumed(Top).got
        /\ g.inbox = NoReply /\ g.stage = "io"
    BY <1>2 DEF Frames, Stages
  <2> HIDE DEF g
  <2> QED BY <1>2, <2>1 DEF FrameSound, NoReply
<1>4. frames' = Replaced(g) /\ slot' = <<>> /\ phase' = "suspended"
      /\ UNCHANGED <<root, receive, result, budget, woken>> /\ burst' = burst + 1
  BY DEF AwaitIo, Polls
<1> HIDE DEF g
<1>5. /\ frames' \in Seq(Frames) /\ Len(frames') = Depth /\ frames'[Depth] = g
      /\ ChainSound(root, frames')
  BY <1>1, <1>3, <1>4, ChainReplace DEF Replaced, Depth, Top
<1>6. Stack' = frames' /\ Depth' = Depth /\ slot' \in Seq(Frames)
  BY <1>4, <1>5, StackNext
<1>7. TypeOK'
  BY <1>4, <1>5, <1>6 DEF ChainInv, TypeOK, Phases
<1>8. Top' = g
  BY <1>5, <1>6 DEF Top
<1>9. result' = NoReply /\ receive' = NoReply
  BY <1>1, <1>4 DEF ChainInv, RootReplies, TopReady, Active, AwaitIo, Polls, Proceeds
<1>10. SlotSound'
  BY <1>4 DEF SlotSound
<1>11. RootReplies'
  BY <1>9 DEF RootReplies
<1>12. Stack' # <<>>
  BY <1>1, <1>5, <1>6 DEF Depth
<1>13. TopReady'
  BY <1>3, <1>8, <1>9, <1>12 DEF TopReady
<1> QED BY <1>4, <1>5, <1>6, <1>7, <1>10, <1>11, <1>13 DEF ChainInv

(* A poll of the top ends in the request of an operand.                     *)
LEMMA RequestChain == ChainInv /\ Request => ChainInv'
<1> SUFFICES ASSUME ChainInv, Request PROVE ChainInv'
  OBVIOUS
<1> DEFINE f == Resumed(Top)
           g == [f EXCEPT !.stage = "child"]
           n == NextCall(f)
           h == NewFrame(n, Depth)
<1>1. /\ Stack \in Seq(Frames) /\ Stack # <<>> /\ Depth \in Nat
      /\ Top \in Frames /\ FrameSound(root, Top, Depth) /\ Runnable(Top)
      /\ ChainSound(root, Stack) /\ root \in Roots
  BY StackFacts DEF Request, Polls, ChainInv
<1>2. /\ f \in Frames /\ FrameSound(root, f, Depth)
      /\ f.node = Top.node /\ f.inbox = NoReply /\ f.next < Len(Calls[f.node])
  BY <1>1, ResumedSound DEF Request
<1>3. n \in Nodes
  <2>1. f.node \in Nodes /\ f.next \in Nat
    BY <1>2 DEF Frames
  <2> QED BY <1>2, <2>1, CallProperties DEF NextCall
<1>4. /\ frames' = Replaced(g) /\ slot' = <<h>>
      /\ UNCHANGED <<root, phase, receive, result, woken>> /\ burst' = burst + 1
      /\ budget' = budget - 1 /\ budget > 0
  BY DEF Request, Polls, Proceeds, BudgetSpent
<1> HIDE DEF f
<1>5. /\ g \in Frames /\ FrameSound(root, g, Depth) /\ g.node = Top.node /\ Awaits(g, n)
      /\ g.next < Len(Calls[g.node])
  <2>1. /\ g \in Frames /\ g.node = f.node /\ g.to = f.to
        /\ g.next = f.next /\ g.got = f.got /\ g.inbox = NoReply /\ g.stage = "child"
    BY <1>2 DEF Frames, Stages
  <2>2. NextCall(g) = NextCall(f)
    BY <2>1 DEF NextCall
  <2> HIDE DEF g
  <2> QED BY <1>2, <2>1, <2>2 DEF FrameSound, NoReply, Awaits
<1> HIDE DEF g
<1>6. /\ frames' \in Seq(Frames) /\ Len(frames') = Depth /\ frames'[Depth] = g
      /\ ChainSound(root, frames')
  BY <1>1, <1>4, <1>5, ChainReplace DEF Replaced, Depth, Top
<1>7. frames' # <<>>
  BY <1>1, <1>6 DEF Depth
<1>8. h \in Frames /\ h.stage = "run"
  <2>1. NoReply \in Replies
    BY DEF NoReply, Replies, Tags
  <2> QED BY <1>1, <1>3, <2>1 DEF NewFrame, Frames, Stages
<1>9. ChainSound(root, Append(frames', h))
  BY <1>1, <1>3, <1>5, <1>6, <1>7, ChainPush
<1> HIDE DEF h
<1>10. /\ slot' \in Seq(Frames) /\ Len(slot') = 1 /\ slot' # <<>> /\ slot'[1] = h
  BY <1>4, <1>8
<1>11. /\ Stack' = Append(frames', h) /\ Stack' # <<>>
       /\ Stack'[Len(frames') + 1] = h /\ Len(Stack') = Len(frames') + 1
  BY <1>6, <1>10, StackShape DEF Stack
<1>12. Top' = h
  BY <1>11 DEF Top, Depth
<1>13. TypeOK'
  BY <1>4, <1>6, <1>10, BoundAssumption DEF ChainInv, TypeOK
<1>14. SlotSound'
  BY <1>8, <1>10 DEF SlotSound
<1>15. receive' = NoReply /\ result' = NoReply
  BY <1>1, <1>4 DEF ChainInv, RootReplies, TopReady, Active, Request, Polls, Proceeds
<1>16. RootReplies' /\ TopReady'
  BY <1>8, <1>11, <1>12, <1>15 DEF RootReplies, TopReady
<1> QED BY <1>4, <1>9, <1>11, <1>13, <1>14, <1>16 DEF ChainInv

(* A poll of the top ends in its reply, which goes to the frame below, or   *)
(* to the driver if there is none.                                          *)
LEMMA ReturnChain ==
  ASSUME ChainInv, Polls, NEW r \in Replies, Return(r), r.tag \in {"ok", "error"},
         r.tag = "ok" => r.leaves = Leaves(Top.node)
  PROVE  ChainInv'
<1> DEFINE below == SubSeq(Stack, 1, Depth - 1)
<1>1. /\ Stack \in Seq(Frames) /\ Stack # <<>> /\ Depth \in Nat /\ Depth = Len(Stack)
      /\ Top \in Frames /\ Top.to = Depth - 1 /\ ChainSound(root, Stack) /\ root \in Roots
  BY StackFacts DEF Polls, ChainInv, FrameSound, Depth
<1>2. /\ below \in Seq(Frames) /\ Len(below) = Depth - 1 /\ ChainSound(root, below)
      /\ \A i \in 1..(Depth - 1) : below[i] = Stack[i]
  BY <1>1, FrontOf, ChainPop
<1>3. /\ slot' = <<>> /\ budget' = budget - 1 /\ budget > 0 /\ burst' = burst + 1
      /\ phase' = phase /\ result' = result /\ woken' = woken /\ phase = "polling"
      /\ root' = root
  BY DEF Return, Polls, Proceeds, BudgetSpent
<1>4. result' = NoReply /\ receive = NoReply
  BY <1>1, <1>3 DEF ChainInv, RootReplies, TopReady, Active
<1>5. SlotSound'
  BY <1>3 DEF SlotSound
<1>6. IF Top.to \in DOMAIN below
      THEN frames' = [below EXCEPT ![Top.to] = [@ EXCEPT !.inbox = r]] /\ receive' = receive
      ELSE frames' = below /\ receive' = r
  BY DEF Return
<1> HIDE DEF below
<1>7. DOMAIN below = 1..(Depth - 1)
  BY <1>2
<1>8. CASE Depth = 1
  <2>1. below = <<>> /\ frames' = below /\ receive' = r
    BY <1>1, <1>2, <1>6, <1>7, <1>8
  <2>2. frames' \in Seq(Frames) /\ Stack' = <<>> /\ slot' \in Seq(Frames)
    BY <1>2, <1>3, <2>1, StackNext
  <2>3. Top.node = root
    BY <1>1, <1>8 DEF ChainSound, Top
  <2>4. RootReplies' /\ TopReady'
    BY <1>3, <1>4, <2>1, <2>2, <2>3 DEF RootReplies, TopReady, Sent, NoReply
  <2>5. TypeOK'
    BY <1>3, <2>1, <2>2, BoundAssumption DEF ChainInv, TypeOK
  <2>6. ChainSound(root, Stack)'
    BY <1>2, <1>3, <2>1, <2>2
  <2> QED BY <1>5, <2>4, <2>5, <2>6 DEF ChainInv
<1>9. CASE Depth # 1
  <2>1. Depth - 1 \in 1..(Depth - 1)
    <3>1. Depth # 0
      BY <1>1
    <3> QED BY <1>1, <1>9, <3>1
  <2> DEFINE b == below[Len(below)]
  <2>2. /\ frames' = [below EXCEPT ![Len(below)] = [@ EXCEPT !.inbox = r]]
        /\ receive' = NoReply
    BY <1>1, <1>2, <1>4, <1>6, <1>7, <2>1
  <2>3. Awaits(b, Top.node) /\ b.next < Len(Calls[b.node])
    <3>1. b = Stack[Depth - 1] /\ Stack[(Depth - 1) + 1] = Top
      BY <1>1, <1>2, <2>1 DEF Top
    <3>2. Awaits(Stack[Depth - 1], Stack[(Depth - 1) + 1].node)
      BY <1>1, <2>1 DEF ChainSound
    <3>3. FrameSound(root, Stack[Depth - 1], Depth - 1)
      BY <1>1, <2>1 DEF ChainSound
    <3> QED BY <3>1, <3>2, <3>3 DEF FrameSound, Awaits
  <2>4. below # <<>>
    BY <1>2, <2>1
  <2>5. /\ frames' \in Seq(Frames) /\ Len(frames') = Len(below)
        /\ frames'[Len(below)].inbox = r /\ ChainSound(root, frames')
    BY <1>1, <1>2, <2>2, <2>3, <2>4, ChainReply
  <2>6. /\ Stack' = frames' /\ Depth' = Len(frames') /\ slot' \in Seq(Frames)
        /\ Stack' # <<>>
    BY <1>2, <1>3, <2>1, <2>5, StackNext
  <2>7. Top'.inbox = r
    BY <2>5, <2>6 DEF Top
  <2>8. RootReplies' /\ TopReady'
    BY <1>4, <2>2, <2>6, <2>7 DEF RootReplies, TopReady, NoReply
  <2>9. TypeOK'
    <3>1. NoReply \in Replies
      BY DEF NoReply, Replies, Tags
    <3> QED BY <1>3, <2>2, <2>5, <2>6, <3>1, BoundAssumption DEF ChainInv, TypeOK
  <2>10. ChainSound(root, Stack)'
    BY <1>3, <2>5, <2>6
  <2> QED BY <1>5, <2>8, <2>9, <2>10 DEF ChainInv
<1> QED BY <1>8, <1>9

(* A frame that has all its operands replies with their leaves and its own. *)
LEMMA SucceedChain == ChainInv /\ Succeed => ChainInv'
<1> SUFFICES ASSUME ChainInv, Succeed PROVE ChainInv'
  OBVIOUS
<1> DEFINE f == Resumed(Top)
<1>1. /\ Top \in Frames /\ FrameSound(root, Top, Depth) /\ Runnable(Top) /\ Depth \in Nat
      /\ root \in Roots
  BY StackFacts DEF Succeed, Polls
<1>2. f \in Frames /\ FrameSound(root, f, Depth) /\ f.node = Top.node
  BY <1>1, ResumedSound
<1>3. f.next = Len(Calls[f.node]) /\ Polls /\ Return(Ok(Value(f)))
  BY DEF Succeed
<1> HIDE DEF f
<1>4. Value(f) = Leaves(Top.node)
  BY <1>2, <1>3 DEF Value, Leaves, FrameSound
<1>5. Value(f) \in Seq(Nodes)
  BY <1>2 DEF Value, Frames
<1>6. /\ Ok(Value(f)) \in Replies /\ Ok(Value(f)).tag = "ok"
      /\ Ok(Value(f)).leaves = Value(f)
  BY <1>5 DEF Ok, Replies, Tags
<1> QED BY <1>3, <1>4, <1>6, ReturnChain

(* A frame that fails replies with its own error.                           *)
LEMMA FailChain == ChainInv /\ Fail => ChainInv'
<1> SUFFICES ASSUME ChainInv, Fail PROVE ChainInv'
  OBVIOUS
<1>1. Top \in Frames /\ Polls /\ Return(Failed(Top.node))
  BY StackFacts DEF Fail, Polls
<1>2. Failed(Top.node) \in Replies /\ Failed(Top.node).tag = "error"
  <2>1. Top.node \in Nodes
    BY <1>1 DEF Frames
  <2> QED BY <2>1 DEF Failed, Replies, Tags
<1> QED BY <1>1, <1>2, ReturnChain

(* A frame whose operand failed replies with that error.                    *)
LEMMA PropagateChain == ChainInv /\ Propagate => ChainInv'
<1> SUFFICES ASSUME ChainInv, Propagate PROVE ChainInv'
  OBVIOUS
<1>1. Top \in Frames /\ Polls /\ Return(Top.inbox) /\ Top.inbox.tag = "error"
  BY StackFacts DEF Propagate, Polls
<1>2. Top.inbox \in Replies
  BY <1>1 DEF Frames
<1> QED BY <1>1, <1>2, ReturnChain

(* A step that leaves the frames, the slot and the root's reply alone.      *)
LEMMA SameStackChain ==
  ASSUME ChainInv, UNCHANGED <<root, frames, slot, receive>>, TypeOK',
         ~Active' \/ (Active /\ result' = result)
  PROVE  ChainInv'
<1>1. /\ Stack' = Stack /\ Top' = Top /\ slot' = slot /\ receive' = receive
      /\ root' = root
  BY DEF Stack, Top, Depth
<1>2. SlotSound' /\ RootReplies' /\ TopReady'
  BY <1>1 DEF ChainInv, SlotSound, RootReplies, Sent, TopReady
<1> QED BY <1>1, <1>2 DEF ChainInv

(* I/O ends: only the top frame awaits any.                                 *)
LEMMA CompleteIoChain == ChainInv /\ CompleteIo => ChainInv'
<1> SUFFICES ASSUME ChainInv, CompleteIo PROVE ChainInv'
  OBVIOUS
<1>1. PICK i \in 1..Len(frames) :
        /\ frames[i].stage = "io"
        /\ frames' = [frames EXCEPT ![i] = [@ EXCEPT !.stage = "ready"]]
        /\ woken' = TRUE /\ phase \in {"suspended", "polling"}
        /\ UNCHANGED <<root, phase, slot, receive, result, budget, burst>>
  BY DEF CompleteIo
<1>2. /\ frames \in Seq(Frames) /\ Len(frames) \in Nat /\ slot \in Seq(Frames)
      /\ frames[i] \in Frames /\ i \in Nat /\ 1 <= i /\ root \in Roots
  BY <1>1 DEF ChainInv, TypeOK
<1>3. slot = <<>> /\ i = Len(frames)
  <2>1. ASSUME i < Depth PROVE FALSE
    <3>1. Stack[i] = frames[i] /\ i \in 1..(Depth - 1)
      BY <1>2, <2>1, StackFacts, ConcatProperties DEF Stack
    <3> QED BY <1>1, <3>1 DEF ChainInv, ChainSound, Depth, Awaits
  <2>2. CASE slot = <<>>
    <3>1. Depth = Len(frames)
      BY <1>2, <2>2, ConcatEmptySeq DEF Stack, Depth
    <3> QED BY <1>2, <2>1, <2>2, <3>1
  <2>3. CASE slot # <<>>
    <3>1. Depth = Len(frames) + 1
      BY <1>2, <2>3, StackShape DEF ChainInv, SlotSound, Stack, Depth
    <3> QED BY <1>2, <2>1, <3>1
  <2> QED BY <2>2, <2>3
<1>4. Stack = frames /\ ChainSound(root, frames) /\ frames # <<>>
  BY <1>2, <1>3, ConcatEmptySeq DEF Stack, ChainInv
<1> DEFINE g == [frames[i] EXCEPT !.stage = "ready"]
<1>5. /\ g \in Frames /\ g.node = frames[i].node /\ FrameSound(root, g, i) /\ g.stage = "ready"
  <2>1. FrameSound(root, frames[i], i)
    BY <1>4 DEF ChainSound
  <2>2. /\ g \in Frames /\ g.node = frames[i].node /\ g.to = frames[i].to
        /\ g.next = frames[i].next /\ g.got = frames[i].got
        /\ g.inbox = frames[i].inbox /\ g.stage = "ready"
    BY <1>2 DEF Frames, Stages
  <2> HIDE DEF g
  <2> QED BY <1>1, <2>1, <2>2 DEF FrameSound, NextCall
<1>6. frames' = [frames EXCEPT ![i] = g]
  BY <1>1
<1> HIDE DEF g
<1>7. /\ frames' \in Seq(Frames) /\ Len(frames') = Len(frames) /\ frames'[i] = g
      /\ ChainSound(root, frames')
  BY <1>2, <1>3, <1>4, <1>5, <1>6, ChainReplace
<1>8. Stack' = frames' /\ Depth' = Len(frames') /\ slot' = <<>> /\ Stack' # <<>>
  <2>1. slot' = <<>>
    BY <1>1, <1>3
  <2>2. frames' # <<>>
    BY <1>2, <1>4, <1>7
  <2> QED BY <1>7, <2>1, <2>2, StackNext
<1>9. Top' = g
  BY <1>3, <1>7, <1>8 DEF Top
<1>10. TypeOK'
  BY <1>1, <1>7 DEF ChainInv, TypeOK
<1>11. receive' = NoReply /\ result' = NoReply
  BY <1>1, <1>4 DEF ChainInv, RootReplies, TopReady, Active
<1>12. SlotSound' /\ RootReplies' /\ TopReady'
  BY <1>5, <1>8, <1>9, <1>11 DEF SlotSound, RootReplies, TopReady
<1> QED BY <1>1, <1>7, <1>8, <1>10, <1>12 DEF ChainInv

(* Dropping the top of the stack, queued or not, once the evaluation is     *)
(* over.                                                                    *)
LEMMA DropTopChain ==
  ASSUME ChainInv, Stack # <<>>, TypeOK', ~Active', SlotSound',
         Stack' = SubSeq(Stack, 1, Depth - 1), receive' = receive, root' = root
  PROVE  ChainInv'
<1>1. /\ Stack \in Seq(Frames) /\ ChainSound(root, Stack) /\ receive = NoReply
      /\ root \in Roots
  BY StackFacts DEF ChainInv, RootReplies
<1>2. ChainSound(root, Stack)'
  BY <1>1, ChainPop DEF Depth
<1>3. RootReplies' /\ TopReady'
  BY <1>1 DEF RootReplies, TopReady
<1> QED BY <1>2, <1>3 DEF ChainInv

(* The queued child is dropped, by the frame limit or by the drop.          *)
LEMMA SlotDroppedChain ==
  ASSUME ChainInv, slot # <<>>, slot' = <<>>, frames' = frames, receive' = receive,
         root' = root, TypeOK', ~Active'
  PROVE  ChainInv'
<1>1. frames \in Seq(Frames) /\ slot \in Seq(Frames) /\ Len(slot) \in {0, 1}
  BY DEF ChainInv, TypeOK, SlotSound
<1>2. SubSeq(Stack, 1, Depth - 1) = frames /\ Stack # <<>>
  BY <1>1, StackShape DEF Stack, Depth
<1>3. Stack' = frames'
  BY <1>1, StackNext
<1>4. SlotSound'
  BY DEF SlotSound
<1> QED BY <1>2, <1>3, <1>4, DropTopChain

(* A refused child leaves the frames as they are.                           *)
LEMMA RefuseChain == ChainInv /\ (RefuseFrame \/ RefuseMemory) => ChainInv'
<1> SUFFICES ASSUME ChainInv, RefuseFrame \/ RefuseMemory PROVE ChainInv'
  OBVIOUS
<1>1. /\ slot # <<>> /\ slot' = <<>> /\ frames' = frames /\ receive' = receive
      /\ result' \in {FrameLimit, NoMemory} /\ phase' = "draining"
      /\ budget' = budget /\ burst' = burst /\ woken' = woken /\ root' = root
  BY DEF RefuseFrame, RefuseMemory
<1>2. FrameLimit \in Replies /\ NoMemory \in Replies /\ <<>> \in Seq(Frames)
  BY DEF FrameLimit, NoMemory, Replies, Tags
<1>3. TypeOK'
  BY <1>1, <1>2 DEF ChainInv, TypeOK, Phases
<1> QED BY <1>1, <1>3, SlotDroppedChain DEF Active

(* Frames and child are released from the top.                              *)
LEMMA DropChain == ChainInv /\ Drop => ChainInv'
<1> SUFFICES ASSUME ChainInv, Drop PROVE ChainInv'
  OBVIOUS
<1>1. CASE ReleaseSlot
  <2>1. /\ slot # <<>> /\ slot' = <<>> /\ frames' = frames /\ receive' = receive
        /\ result' = result /\ phase' = phase /\ phase = "draining"
        /\ budget' = budget /\ burst' = burst /\ woken' = woken /\ root' = root
    BY <1>1 DEF ReleaseSlot
  <2>2. TypeOK'
    BY <2>1 DEF ChainInv, TypeOK
  <2> QED BY <2>1, <2>2, SlotDroppedChain DEF Active
<1>2. CASE ReleaseFrame
  <2>1. /\ slot = <<>> /\ slot' = <<>> /\ frames # <<>>
        /\ frames' = SubSeq(frames, 1, Len(frames) - 1)
        /\ receive' = receive /\ result' = result /\ phase' = phase /\ phase = "draining"
        /\ budget' = budget /\ burst' = burst /\ woken' = woken /\ root' = root
    BY <1>2 DEF ReleaseFrame
  <2>2. frames \in Seq(Frames) /\ slot \in Seq(Frames)
    BY DEF ChainInv, TypeOK
  <2>3. Stack = frames
    BY <2>1, <2>2, ConcatEmptySeq DEF Stack
  <2>4. frames' \in Seq(Frames)
    BY <2>1, <2>2, FrontOf
  <2>5. Stack' = SubSeq(Stack, 1, Depth - 1)
    BY <2>1, <2>3, <2>4, StackNext DEF Depth
  <2>6. TypeOK'
    BY <2>1, <2>2, <2>4 DEF ChainInv, TypeOK
  <2>7. SlotSound'
    BY <2>1 DEF SlotSound
  <2> QED BY <2>1, <2>3, <2>5, <2>6, <2>7, DropTopChain DEF Active
<1>3. CASE Released
  <2>1. TypeOK'
    BY <1>3 DEF ChainInv, TypeOK, Phases, Released
  <2> QED BY <1>3, <2>1, SameStackChain DEF Released, Active
<1> QED BY <1>1, <1>2, <1>3 DEF Drop

(* The steps that touch neither the frames nor the slot.                    *)
LEMMA OtherChain ==
  ChainInv /\ (Poll \/ Yield \/ StayBlocked \/ Deliver \/ Cancel \/ UNCHANGED vars) => ChainInv'
<1> SUFFICES ASSUME ChainInv,
                    Poll \/ Yield \/ StayBlocked \/ Deliver \/ Cancel \/ UNCHANGED vars
             PROVE  ChainInv'
  OBVIOUS
<1> USE BoundAssumption
<1>1. CASE Poll
  <2>0. budget' \in 0..Budget /\ burst' \in Nat
    BY <1>1 DEF Poll
  <2>1. TypeOK'
    BY <1>1, <2>0 DEF ChainInv, TypeOK, Phases, Poll
  <2> QED BY <1>1, <2>1, SameStackChain DEF Poll, Active
<1>2. CASE Yield
  <2>1. TypeOK'
    BY <1>2 DEF ChainInv, TypeOK, Phases, Yield
  <2> QED BY <1>2, <2>1, SameStackChain DEF Yield, Active
<1>3. CASE StayBlocked
  <2>1. TypeOK'
    BY <1>3 DEF ChainInv, TypeOK, Phases, StayBlocked, Polls
  <2> QED BY <1>3, <2>1, SameStackChain DEF StayBlocked, Polls, Proceeds, Active
<1>4. CASE Deliver
  <2>1. result' \in Replies
    BY <1>4 DEF Deliver, ChainInv, TypeOK, Missing, Replies, Tags
  <2>2. TypeOK'
    BY <1>4, <2>1 DEF ChainInv, TypeOK, Phases, Deliver
  <2> QED BY <1>4, <2>2, SameStackChain DEF Deliver, Active
<1>5. CASE Cancel
  <2>1. TypeOK'
    BY <1>5 DEF ChainInv, TypeOK, Phases, Cancel
  <2> QED BY <1>5, <2>1, SameStackChain DEF Cancel, Active
<1>6. CASE UNCHANGED vars
  BY <1>6, SameStackChain DEF vars, ChainInv, TypeOK, Active
<1> QED BY <1>1, <1>2, <1>3, <1>4, <1>5, <1>6

(* Every step keeps the chain of calls.                                     *)
LEMMA NextChain == ChainInv /\ [Next]_vars => ChainInv'
BY AwaitIoChain, RequestChain, SucceedChain, FailChain, PropagateChain, CompleteIoChain,
   RefuseChain, DropChain, OtherChain
   DEF Next, Iterate

(* In every state of every evaluation the stack is a chain of calls whose   *)
(* frames hold what they must.                                              *)
LEMMA Chain == Spec => []ChainInv
<1> QED BY InitChain, NextChain, PTL DEF Spec

--------------------------------------------------------------------------------
(* Every variable keeps a value of its kind, for every expression.          *)
THEOREM TypeCorrect == Spec => []TypeOK
<1>1. ChainInv => TypeOK
  BY DEF ChainInv
<1> QED BY <1>1, Chain, PTL

(* The frames and the queued child are always one chain of calls: the       *)
(* driver never loses a frame by polling only the top one, and a frame      *)
(* never finds the slot taken.                                              *)
THEOREM CallsAreOneChain == Spec => []OneChain
<1>1. ChainInv => OneChain
  <2> SUFFICES ASSUME ChainInv PROVE OneChain
    OBVIOUS
  <2>1. ChainSound(root, Stack) /\ Depth = Len(Stack) /\ Depth \in Nat /\ Len(slot) \in {0, 1}
    BY StackFacts DEF ChainInv, SlotSound, Depth
  <2>2. ASSUME NEW i \in 1..Depth PROVE Stack[i].to = i - 1
    BY <2>1 DEF ChainSound, FrameSound
  <2>3. ASSUME NEW i \in 1..(Depth - 1)
        PROVE  /\ Stack[i].stage = "child"
               /\ Stack[i].inbox = NoReply
               /\ Stack[i].next < Len(Calls[Stack[i].node])
               /\ Stack[i + 1].node = Calls[Stack[i].node][Stack[i].next + 1]
    <3>1. i \in 1..Depth
      BY <2>1
    <3>2. FrameSound(root, Stack[i], i) /\ Awaits(Stack[i], Stack[i + 1].node)
      BY <2>1, <3>1 DEF ChainSound
    <3> QED BY <3>2 DEF FrameSound, Awaits, NextCall
  <2> QED BY <2>1, <2>2, <2>3 DEF OneChain
<1> QED BY <1>1, Chain, PTL

(* A value that reaches the caller combines the leaves of the expression,   *)
(* each once per use and in operand order; and no caller of evaluate_batch  *)
(* is told that its result is missing.                                      *)
THEOREM ValuesAreComplete == Spec => []CompleteValue
<1>1. Init => CompleteValue
  BY DEF Init, CompleteValue, NoReply
<1>2. ChainInv /\ CompleteValue /\ [Next]_vars => CompleteValue'
  <2> SUFFICES ASSUME ChainInv, CompleteValue, [Next]_vars PROVE CompleteValue'
    OBVIOUS
  <2>0. root' = root
    BY DEF Next, Iterate, vars, Poll, Yield, RefuseFrame, RefuseMemory, AwaitIo, Request,
           Succeed, Fail, Propagate, Return, StayBlocked, Deliver, CompleteIo, Cancel, Drop,
           ReleaseSlot, ReleaseFrame, Released
  <2>1. CASE result' = result
    BY <2>0, <2>1 DEF CompleteValue
  <2>2. CASE Deliver
    <3>1. receive # NoReply /\ Sent(receive)
      BY <2>2 DEF Deliver, Proceeds, ChainInv, TopReady, RootReplies, Active
    <3>2. result' = receive
      BY <2>2, <3>1 DEF Deliver
    <3> QED BY <2>0, <3>1, <3>2 DEF CompleteValue, Sent
  <2>3. CASE RefuseFrame \/ RefuseMemory
    BY <2>3 DEF RefuseFrame, RefuseMemory, CompleteValue, FrameLimit, NoMemory
  <2> QED BY <2>1, <2>2, <2>3
    DEF Next, Iterate, vars, Poll, Yield, AwaitIo, Request, Succeed, Fail, Propagate, Return,
        StayBlocked, CompleteIo, Cancel, Drop, ReleaseSlot, ReleaseFrame, Released
<1> QED BY <1>1, <1>2, Chain, PTL DEF Spec

(* The frame limit.  A frame at position i whose operand has been evaluated *)
(* had room above it for all the frames that operand needed.                *)
FrameFits(f, i) ==
  /\ \A k \in 1..f.next : Height[Calls[f.node][k]] + i <= MaxFrames
  /\ f.inbox.tag = "ok" => Height[NextCall(f)] + i <= MaxFrames

Fits(s) == \A i \in 1..Len(s) : FrameFits(s[i], i)

LimitInv ==
  /\ Fits(Stack)
  /\ receive.tag = "ok" => Height[root] <= MaxFrames
  /\ FrameLimitIsExact

(* A frame is polled only where it fits.                                    *)
LEMMA PolledFits ==
  ASSUME ChainInv, LimitInv, Polls
  PROVE  /\ Depth \in Nat /\ Depth <= MaxFrames /\ Depth \in 1..Depth
         /\ Stack \in Seq(Frames) /\ Stack # <<>> /\ Depth = Len(Stack)
         /\ root \in Roots /\ Top \in Frames /\ FrameSound(root, Top, Depth)
         /\ Top = Stack[Depth] /\ FrameFits(Top, Depth)
<1>1. /\ Stack \in Seq(Frames) /\ Stack # <<>> /\ Depth = Len(Stack) /\ Depth \in Nat
      /\ root \in Roots /\ Depth \in 1..Depth /\ Top \in Frames /\ Top = Stack[Depth]
      /\ FrameSound(root, Top, Depth)
  BY StackFacts DEF Polls, Depth, Top
<1>2. FrameFits(Top, Depth)
  BY <1>1 DEF LimitInv, Fits
<1>3. /\ frames \in Seq(Frames) /\ slot \in Seq(Frames) /\ Len(slot) \in {0, 1}
      /\ Len(frames) <= MaxFrames /\ Len(frames) \in Nat
      /\ slot # <<>> => Len(frames) # MaxFrames
  BY DEF ChainInv, TypeOK, SlotSound, LimitInv, FrameLimitIsExact, Polls, AtFrameLimit
<1>4. CASE slot = <<>>
  BY <1>1, <1>2, <1>3, <1>4, ConcatEmptySeq DEF Stack
<1>5. CASE slot # <<>>
  <2>1. Depth = Len(frames) + 1
    BY <1>1, <1>3, <1>5, StackShape DEF Stack
  <2>2. Depth <= MaxFrames
    BY <1>3, <1>5, <2>1, BoundAssumption
  <2> QED BY <1>1, <1>2, <2>2
<1> QED BY <1>4, <1>5

(* Taking the awaited reply turns its frames into those of an operand.      *)
LEMMA ResumedFits ==
  ASSUME NEW f \in Frames, NEW i \in Nat, FrameFits(f, i), Runnable(f), f.next \in Nat
  PROVE  FrameFits(Resumed(f), i)
<1>1. CASE f.stage = "child"
  <2> DEFINE g == Resumed(f)
  <2>1. g.node = f.node /\ g.next = f.next + 1 /\ g.inbox = NoReply
    BY <1>1 DEF Resumed, Frames
  <2>2. Height[Calls[f.node][f.next + 1]] + i <= MaxFrames
    BY <1>1 DEF Runnable, FrameFits, NextCall
  <2> HIDE DEF g
  <2>3. ASSUME NEW k \in 1..g.next PROVE Height[Calls[g.node][k]] + i <= MaxFrames
    <3>1. k \in 1..f.next \/ k = f.next + 1
      BY <2>1
    <3> QED BY <2>1, <2>2, <3>1 DEF FrameFits
  <2>4. FrameFits(g, i)
    BY <2>1, <2>3 DEF FrameFits, NoReply
  <2> QED BY <2>4 DEF g
<1>2. CASE f.stage # "child"
  BY <1>2 DEF Resumed
<1> QED BY <1>1, <1>2

(* The frames below the top, and a frame that fits in its place.            *)
LEMMA FitsReplace ==
  ASSUME NEW s \in Seq(Frames), Fits(s), s # <<>>, NEW f \in Frames, FrameFits(f, Len(s))
  PROVE  /\ Fits([s EXCEPT ![Len(s)] = f])
         /\ Len([s EXCEPT ![Len(s)] = f]) = Len(s)
         /\ [s EXCEPT ![Len(s)] = f] \in Seq(Frames)
<1> DEFINE t == [s EXCEPT ![Len(s)] = f]
<1>1. /\ t \in Seq(Frames) /\ Len(t) = Len(s) /\ t[Len(s)] = f
      /\ \A i \in 1..(Len(s) - 1) : t[i] = s[i]
  <2>1. Len(s) \in Nat /\ Len(s) \in 1..Len(s)
    OBVIOUS
  <2> QED BY <2>1, ExceptSeq
<1> HIDE DEF t
<1>2. ASSUME NEW i \in 1..Len(t) PROVE FrameFits(t[i], i)
  <2>1. i = Len(s) \/ i \in 1..(Len(s) - 1)
    BY <1>1
  <2> QED BY <1>1, <2>1 DEF Fits
<1>3. Fits(t)
  BY <1>2 DEF Fits
<1> QED BY <1>1, <1>3 DEF t

(* A stack that fits still fits without its top frame.                      *)
LEMMA FitsPop ==
  ASSUME NEW s \in Seq(Frames), Fits(s), s # <<>>
  PROVE  Fits(SubSeq(s, 1, Len(s) - 1))
<1> DEFINE t == SubSeq(s, 1, Len(s) - 1)
<1>1. Len(t) = Len(s) - 1 /\ Len(s) \in Nat /\ \A i \in 1..(Len(s) - 1) : t[i] = s[i]
  BY FrontOf
<1> HIDE DEF t
<1>2. Fits(t)
  BY <1>1 DEF Fits
<1> QED BY <1>2 DEF t

(* What a step with the same root and result has to establish.              *)
LEMMA LimitStep ==
  ASSUME LimitInv, root' = root, result' = result, Fits(Stack'), Len(frames') <= MaxFrames,
         receive'.tag = "ok" => Height[root] <= MaxFrames
  PROVE  LimitInv'
<1>1. Fits(Stack)'
  BY DEF Fits, FrameFits, NextCall
<1> QED BY <1>1 DEF LimitInv, FrameLimitIsExact

(* A frame that waits for I/O keeps to the limit.                           *)
LEMMA AwaitIoLimit == ChainInv /\ LimitInv /\ AwaitIo => LimitInv'
<1> SUFFICES ASSUME ChainInv, LimitInv, AwaitIo PROVE LimitInv'
  OBVIOUS
<1> DEFINE g == [Resumed(Top) EXCEPT !.stage = "io"]
<1>1. /\ Stack \in Seq(Frames) /\ Stack # <<>> /\ Depth = Len(Stack) /\ Depth <= MaxFrames
      /\ Depth \in Nat /\ Top \in Frames /\ FrameFits(Top, Depth) /\ Runnable(Top)
      /\ root \in Roots /\ FrameSound(root, Top, Depth)
  BY PolledFits DEF AwaitIo
<1>2. Resumed(Top) \in Frames /\ FrameFits(Resumed(Top), Depth)
  BY <1>1, ResumedSound, ResumedFits DEF Frames
<1>3. /\ g \in Frames /\ g.node = Resumed(Top).node /\ g.next = Resumed(Top).next
      /\ g.inbox = Resumed(Top).inbox
  BY <1>2 DEF Frames, Stages
<1>4. /\ frames' = Replaced(g) /\ slot' = <<>>
      /\ UNCHANGED <<root, receive, result>>
  BY DEF AwaitIo, Polls
<1> HIDE DEF g
<1>5. FrameFits(g, Depth)
  BY <1>2, <1>3 DEF FrameFits, NextCall
<1>6. Fits(frames') /\ Len(frames') = Depth /\ frames' \in Seq(Frames)
  BY <1>1, <1>3, <1>4, <1>5, FitsReplace DEF Replaced, LimitInv
<1>7. Stack' = frames'
  BY <1>4, <1>6, StackNext
<1> QED BY <1>1, <1>4, <1>6, <1>7, LimitStep DEF LimitInv

(* A frame that requests an operand keeps to the limit.                     *)
LEMMA RequestLimit == ChainInv /\ LimitInv /\ Request => LimitInv'
<1> SUFFICES ASSUME ChainInv, LimitInv, Request PROVE LimitInv'
  OBVIOUS
<1> DEFINE f == Resumed(Top)
           g == [f EXCEPT !.stage = "child"]
           h == NewFrame(NextCall(f), Depth)
<1>1. /\ Stack \in Seq(Frames) /\ Stack # <<>> /\ Depth = Len(Stack) /\ Depth <= MaxFrames
      /\ Depth \in Nat /\ Top \in Frames /\ FrameFits(Top, Depth) /\ Runnable(Top)
      /\ root \in Roots /\ FrameSound(root, Top, Depth)
  BY PolledFits DEF Request
<1>2. /\ f \in Frames /\ FrameFits(f, Depth) /\ f.next < Len(Calls[f.node])
  BY <1>1, ResumedSound, ResumedFits DEF Frames, Request
<1>3. /\ frames' = Replaced(g) /\ slot' = <<h>> /\ UNCHANGED <<root, receive, result>>
  BY DEF Request, Polls
<1> HIDE DEF f
<1>4. /\ g \in Frames /\ g.node = f.node /\ g.next = f.next /\ g.inbox = f.inbox
  BY <1>2 DEF Frames, Stages
<1>5. h \in Frames /\ h.next = 0 /\ h.inbox = NoReply
  <2>1. f.node \in Nodes /\ f.next \in Nat
    BY <1>2 DEF Frames
  <2>2. NextCall(f) \in Nodes
    BY <1>2, <2>1, CallProperties DEF NextCall
  <2> QED BY <1>1, <2>2 DEF NewFrame, Frames, Stages, NoReply, Replies, Tags
<1> HIDE DEF g, h
<1>6. FrameFits(g, Depth)
  BY <1>2, <1>4 DEF FrameFits, NextCall
<1>7. Fits(frames') /\ Len(frames') = Depth /\ frames' \in Seq(Frames)
  BY <1>1, <1>3, <1>4, <1>6, FitsReplace DEF Replaced, LimitInv
<1>8. /\ slot' \in Seq(Frames) /\ Len(slot') = 1 /\ slot' # <<>> /\ slot'[1] = h
  BY <1>3, <1>5
<1>9. Stack' = Append(frames', h)
  BY <1>7, <1>8, StackShape DEF Stack
<1>10. FrameFits(h, Depth + 1)
  BY <1>1, <1>5 DEF FrameFits, NoReply
<1>11. Fits(Stack')
  <2> DEFINE t == Append(frames', h)
  <2>1. /\ Len(t) = Depth + 1 /\ t[Depth + 1] = h
        /\ \A i \in 1..Depth : t[i] = frames'[i]
    BY <1>1, <1>5, <1>7
  <2> HIDE DEF t
  <2>2. ASSUME NEW i \in 1..Len(t) PROVE FrameFits(t[i], i)
    <3>1. i \in 1..Depth \/ i = Depth + 1
      BY <1>1, <2>1
    <3> QED BY <1>7, <1>10, <2>1, <3>1 DEF Fits
  <2>3. Fits(t)
    BY <2>2 DEF Fits
  <2> QED BY <1>9, <2>3 DEF t
<1> QED BY <1>1, <1>3, <1>7, <1>11, LimitStep DEF LimitInv

(* The reply of the top reaches the frame below only if all that the top    *)
(* needed did fit.                                                          *)
LEMMA ReturnLimit ==
  ASSUME ChainInv, LimitInv, Polls, NEW v \in Replies, Return(v), v.tag \in {"ok", "error"},
         v.tag = "ok" => Height[Top.node] + Depth <= MaxFrames + 1
  PROVE  LimitInv'
<1> DEFINE below == SubSeq(Stack, 1, Depth - 1)
<1>1. /\ Stack \in Seq(Frames) /\ Stack # <<>> /\ Depth = Len(Stack) /\ Depth <= MaxFrames
      /\ Depth \in Nat /\ Depth \in 1..Depth /\ Top = Stack[Depth] /\ Top \in Frames
      /\ root \in Roots /\ Top.to = Depth - 1 /\ ChainSound(root, Stack)
  BY PolledFits DEF ChainInv, FrameSound
<1>2. /\ below \in Seq(Frames) /\ Len(below) = Depth - 1 /\ Fits(below)
      /\ \A i \in 1..(Depth - 1) : below[i] = Stack[i]
  BY <1>1, FrontOf, FitsPop DEF LimitInv
<1>3. slot' = <<>> /\ result' = result /\ root' = root
  BY DEF Return
<1>4. IF Top.to \in DOMAIN below
      THEN frames' = [below EXCEPT ![Top.to] = [@ EXCEPT !.inbox = v]] /\ receive' = receive
      ELSE frames' = below /\ receive' = v
  BY DEF Return
<1> HIDE DEF below
<1>5. DOMAIN below = 1..(Depth - 1)
  BY <1>2
<1>6. CASE Depth = 1
  <2>1. frames' = below /\ receive' = v /\ Len(below) = 0
    BY <1>1, <1>2, <1>4, <1>5, <1>6
  <2>2. Top.node = root /\ Height[root] \in Nat
    BY <1>1, <1>6, RootProperties DEF ChainSound
  <2>3. v.tag = "ok" => Height[root] <= MaxFrames
    BY <1>6, <2>2, BoundAssumption
  <2>4. Stack' = frames'
    BY <1>2, <1>3, <2>1, StackNext
  <2>5. Len(frames') <= MaxFrames
    BY <2>1, BoundAssumption
  <2> QED BY <1>2, <1>3, <2>1, <2>3, <2>4, <2>5, LimitStep
<1>7. CASE Depth # 1
  <2>1. Depth - 1 \in 1..(Depth - 1)
    <3>1. Depth # 0
      BY <1>1
    <3> QED BY <1>1, <1>7, <3>1
  <2> DEFINE b == below[Len(below)]
             c == [b EXCEPT !.inbox = v]
  <2>2. /\ frames' = [below EXCEPT ![Len(below)] = c] /\ receive' = receive
    BY <1>1, <1>2, <1>4, <1>5, <2>1
  <2>3. Awaits(b, Top.node) /\ FrameFits(b, Depth - 1) /\ b \in Frames
    <3>1. b = Stack[Depth - 1] /\ Stack[(Depth - 1) + 1] = Top
      BY <1>1, <1>2, <2>1
    <3>2. Awaits(Stack[Depth - 1], Stack[(Depth - 1) + 1].node)
      BY <1>1, <2>1 DEF ChainSound
    <3>3. FrameFits(b, Depth - 1)
      BY <1>2, <2>1 DEF Fits
    <3>4. b \in Frames
      BY <1>2, <2>1
    <3> QED BY <3>1, <3>2, <3>3, <3>4
  <2>4. below # <<>>
    BY <1>2, <2>1
  <2>5. c \in Frames /\ c.node = b.node /\ c.next = b.next /\ c.inbox = v
    BY <2>3 DEF Frames
  <2> HIDE DEF b, c
  <2>6. v.tag = "ok" => Height[NextCall(c)] + (Depth - 1) <= MaxFrames
    <3>1. NextCall(c) = Top.node
      BY <2>3, <2>5 DEF Awaits, NextCall
    <3>2. Height[Top.node] \in Nat
      BY <1>1, HeightAssumption DEF Frames
    <3> QED BY <1>1, <3>1, <3>2, BoundAssumption
  <2>7. FrameFits(c, Depth - 1)
    BY <2>3, <2>5, <2>6 DEF FrameFits
  <2>8. Fits(frames') /\ Len(frames') = Depth - 1 /\ frames' \in Seq(Frames)
    BY <1>2, <2>2, <2>4, <2>5, <2>7, FitsReplace
  <2>9. Stack' = frames' /\ Len(frames') <= MaxFrames
    BY <1>1, <1>3, <2>8, StackNext, BoundAssumption
  <2> QED BY <1>3, <2>2, <2>8, <2>9, LimitStep DEF LimitInv
<1> QED BY <1>6, <1>7

(* A frame that returns its value keeps to the limit.                       *)
LEMMA SucceedLimit == ChainInv /\ LimitInv /\ Succeed => LimitInv'
<1> SUFFICES ASSUME ChainInv, LimitInv, Succeed PROVE LimitInv'
  OBVIOUS
<1> DEFINE f == Resumed(Top)
<1>1. /\ Depth <= MaxFrames /\ Depth \in Nat /\ Top \in Frames /\ FrameFits(Top, Depth)
      /\ root \in Roots /\ FrameSound(root, Top, Depth) /\ Runnable(Top) /\ Polls
  BY PolledFits DEF Succeed
<1>2. f \in Frames /\ FrameFits(f, Depth) /\ f.node = Top.node /\ f.got \in Seq(Nodes)
  BY <1>1, ResumedSound, ResumedFits DEF Frames
<1>3. f.next = Len(Calls[f.node]) /\ Return(Ok(Value(f)))
  BY DEF Succeed
<1> HIDE DEF f
<1>4. Ok(Value(f)) \in Replies /\ Ok(Value(f)).tag = "ok"
  <2>1. Value(f) \in Seq(Nodes)
    BY <1>2 DEF Value, Frames
  <2> QED BY <2>1 DEF Ok, Replies, Tags
<1>5. Height[Top.node] + Depth <= MaxFrames + 1
  <2>1. /\ Top.node \in Nodes /\ Height[Top.node] \in Nat
    BY <1>1, HeightAssumption DEF Frames
  <2>2. CASE Height[Top.node] = 1
    BY <1>1, <2>2, BoundAssumption
  <2>3. CASE \E k \in 1..Len(Calls[Top.node]) : Height[Top.node] = Height[Calls[Top.node][k]] + 1
    <3>1. PICK k \in 1..Len(Calls[Top.node]) : Height[Top.node] = Height[Calls[Top.node][k]] + 1
      BY <2>3
    <3>2. Height[Calls[Top.node][k]] + Depth <= MaxFrames
      BY <1>2, <1>3 DEF FrameFits
    <3>3. Height[Calls[Top.node][k]] \in Nat
      <4>1. Calls[Top.node] \in Seq(Nodes)
        BY <2>1, GraphAssumption
      <4>2. Calls[Top.node][k] \in Nodes
        BY <4>1
      <4> QED BY <4>2, HeightAssumption
    <3> QED BY <1>1, <3>1, <3>2, <3>3, BoundAssumption
  <2> QED BY <2>1, <2>2, <2>3, HeightAssumption
<1> QED BY <1>1, <1>3, <1>4, <1>5, ReturnLimit

(* A frame that returns an error keeps to the limit.                        *)
LEMMA FailLimit == ChainInv /\ LimitInv /\ (Fail \/ Propagate) => LimitInv'
<1> SUFFICES ASSUME ChainInv, LimitInv, Fail \/ Propagate PROVE LimitInv'
  OBVIOUS
<1>1. Polls /\ Top \in Frames
  BY StackFacts DEF Fail, Propagate, Polls
<1>2. CASE Fail
  <2>1. Failed(Top.node) \in Replies /\ Failed(Top.node).tag = "error"
    BY <1>1 DEF Failed, Replies, Tags, Frames
  <2> QED BY <1>1, <1>2, <2>1, ReturnLimit DEF Fail
<1>3. CASE Propagate
  <2>1. Top.inbox \in Replies /\ Top.inbox.tag = "error"
    BY <1>1, <1>3 DEF Propagate, Frames
  <2> QED BY <1>1, <1>3, <2>1, ReturnLimit DEF Propagate
<1> QED BY <1>2, <1>3

(* I/O that completes keeps to the limit.                                   *)
LEMMA CompleteIoLimit == ChainInv /\ LimitInv /\ CompleteIo => LimitInv'
<1> SUFFICES ASSUME ChainInv, LimitInv, CompleteIo PROVE LimitInv'
  OBVIOUS
<1>1. PICK i \in 1..Len(frames) :
        /\ frames' = [frames EXCEPT ![i] = [@ EXCEPT !.stage = "ready"]]
        /\ UNCHANGED <<root, slot, receive, result>>
  BY DEF CompleteIo
<1>2. /\ frames \in Seq(Frames) /\ slot \in Seq(Frames) /\ Len(slot) \in {0, 1}
      /\ Len(frames) \in Nat
  BY DEF ChainInv, TypeOK, SlotSound
<1> DEFINE g == [frames[i] EXCEPT !.stage = "ready"]
<1>3. /\ g \in Frames /\ g.node = frames[i].node /\ g.next = frames[i].next
      /\ g.inbox = frames[i].inbox
  <2>1. frames[i] \in Frames
    BY <1>2
  <2> QED BY <2>1 DEF Frames, Stages
<1>4. frames' = [frames EXCEPT ![i] = g]
  BY <1>1
<1> HIDE DEF g
<1>5. /\ frames' \in Seq(Frames) /\ Len(frames') = Len(frames)
      /\ \A j \in 1..Len(frames) : frames'[j] = IF j = i THEN g ELSE frames[j]
  BY <1>2, <1>3, <1>4
<1>6. \A j \in 1..Len(frames) : FrameFits(frames[j], j) => FrameFits(frames'[j], j)
  BY <1>3, <1>5 DEF FrameFits, NextCall
<1>7. Fits(Stack')
  <2>1. Stack = frames \o slot /\ Stack' = frames' \o slot
    BY <1>1 DEF Stack
  <2>2. /\ Len(Stack') = Len(Stack)
        /\ \A j \in 1..Len(Stack) :
             IF j <= Len(frames) THEN Stack[j] = frames[j] /\ Stack'[j] = frames'[j]
             ELSE Stack'[j] = Stack[j]
    <3>1. ASSUME NEW F \in Seq(Frames)
          PROVE  /\ Len(F \o slot) = Len(F) + Len(slot)
                 /\ \A j \in 1..(Len(F) + Len(slot)) :
                      (F \o slot)[j] = IF j <= Len(F) THEN F[j] ELSE slot[j - Len(F)]
      BY <1>2, ConcatProperties
    <3>2. /\ Len(Stack) = Len(frames) + Len(slot)
          /\ \A j \in 1..Len(Stack) :
               Stack[j] = IF j <= Len(frames) THEN frames[j] ELSE slot[j - Len(frames)]
      BY <1>2, <2>1, <3>1
    <3>3. /\ Len(Stack') = Len(frames) + Len(slot)
          /\ \A j \in 1..Len(Stack') :
               Stack'[j] = IF j <= Len(frames) THEN frames'[j] ELSE slot[j - Len(frames)]
      BY <1>2, <1>5, <2>1, <3>1
    <3> QED BY <3>2, <3>3
  <2>3. ASSUME NEW j \in 1..Len(Stack) PROVE FrameFits(Stack'[j], j)
    <3>1. FrameFits(Stack[j], j)
      BY DEF LimitInv, Fits
    <3>2. j \in 1..Len(frames) \/ ~(j <= Len(frames))
      BY <1>2
    <3> QED BY <1>6, <2>2, <3>1, <3>2
  <2> QED BY <2>2, <2>3 DEF Fits
<1> QED BY <1>1, <1>5, <1>7, LimitStep DEF LimitInv, FrameLimitIsExact

(* Releasing the queued child or the top frame.                             *)
LEMMA DropLimit == ChainInv /\ LimitInv /\ Drop => LimitInv'
<1> SUFFICES ASSUME ChainInv, LimitInv, Drop PROVE LimitInv'
  OBVIOUS
<1>0. /\ frames \in Seq(Frames) /\ slot \in Seq(Frames) /\ Len(slot) \in {0, 1}
      /\ Stack \in Seq(Frames) /\ Len(frames) \in Nat /\ Len(frames) <= MaxFrames
  BY StackFacts DEF ChainInv, TypeOK, SlotSound, LimitInv, FrameLimitIsExact
<1>1. CASE ReleaseSlot
  <2>1. slot # <<>> /\ slot' = <<>> /\ UNCHANGED <<root, frames, receive, result>>
    BY <1>1 DEF ReleaseSlot
  <2>2. SubSeq(Stack, 1, Len(Stack) - 1) = frames /\ Stack # <<>> /\ Stack' = frames
    BY <1>0, <2>1, StackShape, StackNext DEF Stack
  <2>3. Fits(Stack')
    BY <1>0, <2>2, FitsPop DEF LimitInv
  <2> QED BY <1>0, <2>1, <2>3, LimitStep DEF LimitInv
<1>2. CASE ReleaseFrame
  <2>1. /\ slot = <<>> /\ slot' = <<>> /\ frames # <<>>
        /\ frames' = SubSeq(frames, 1, Len(frames) - 1)
        /\ UNCHANGED <<root, receive, result>>
    BY <1>2 DEF ReleaseFrame
  <2>2. Stack = frames
    BY <1>0, <2>1, ConcatEmptySeq DEF Stack
  <2>3. frames' \in Seq(Frames) /\ Len(frames') = Len(frames) - 1
    BY <1>0, <2>1, FrontOf
  <2>4. Fits(Stack')
    BY <1>0, <2>1, <2>2, <2>3, FitsPop, StackNext DEF LimitInv
  <2>5. Len(frames') <= MaxFrames
    BY <1>0, <2>3, BoundAssumption
  <2> QED BY <2>1, <2>4, <2>5, LimitStep DEF LimitInv
<1>3. CASE Released
  BY <1>3 DEF Released, LimitInv, FrameLimitIsExact, Stack, Fits, FrameFits, NextCall
<1> QED BY <1>1, <1>2, <1>3 DEF Drop

(* The steps that end the evaluation.                                       *)
LEMMA EndLimit ==
  ChainInv /\ LimitInv /\ (RefuseFrame \/ RefuseMemory \/ Deliver) => LimitInv'
<1> SUFFICES ASSUME ChainInv, LimitInv, RefuseFrame \/ RefuseMemory \/ Deliver PROVE LimitInv'
  OBVIOUS
<1>0. /\ frames \in Seq(Frames) /\ slot \in Seq(Frames) /\ Len(slot) \in {0, 1}
      /\ Stack \in Seq(Frames) /\ root \in Roots /\ Height[root] \in Nat
      /\ Len(frames) <= MaxFrames /\ Len(frames) \in Nat
  BY StackFacts, RootProperties DEF ChainInv, TypeOK, SlotSound, LimitInv, FrameLimitIsExact
<1>1. CASE RefuseFrame \/ RefuseMemory
  <2>1. /\ slot # <<>> /\ slot' = <<>> /\ UNCHANGED <<root, frames, receive>>
        /\ \/ result' = NoMemory
           \/ result' = FrameLimit /\ Len(frames) = MaxFrames
    BY <1>1 DEF RefuseFrame, RefuseMemory, AtFrameLimit
  <2>2. /\ SubSeq(Stack, 1, Len(Stack) - 1) = frames /\ Stack # <<>> /\ Stack' = frames
        /\ Len(Stack) = Len(frames) + 1
    BY <1>0, <2>1, StackShape, StackNext DEF Stack
  <2>3. Fits(frames)
    BY <1>0, <2>2, FitsPop DEF LimitInv
  <2>4. result' = FrameLimit => Height[root] > MaxFrames
    <3> SUFFICES ASSUME result' = FrameLimit PROVE Height[root] > MaxFrames
      OBVIOUS
    <3>1. Len(frames) = MaxFrames
      BY <2>1 DEF FrameLimit, NoMemory
    <3>2. Depth = MaxFrames + 1
      BY <2>2, <3>1 DEF Depth
    <3>3. Top \in Frames /\ Height[Top.node] + Depth <= Height[root] + 1
      BY <2>2, StackFacts DEF FrameSound
    <3>4. Height[Top.node] \in Nat \ {0}
      BY <3>3, HeightAssumption DEF Frames
    <3> QED BY <1>0, <3>2, <3>3, <3>4, BoundAssumption
  <2>5. result'.tag # "ok"
    BY <2>1 DEF FrameLimit, NoMemory
  <2> QED BY <2>1, <2>2, <2>3, <2>4, <2>5
        DEF LimitInv, FrameLimitIsExact, Fits, FrameFits, NextCall
<1>2. CASE Deliver
  <2>1. receive # NoReply /\ Sent(receive)
    BY <1>2 DEF Deliver, Proceeds, ChainInv, TopReady, RootReplies, Active
  <2>2. result' = receive /\ UNCHANGED <<root, frames, slot, receive>>
    BY <1>2, <2>1 DEF Deliver
  <2>3. Stack' = Stack
    BY <2>2 DEF Stack
  <2>4. result' # FrameLimit
    BY <2>1, <2>2 DEF Sent, FrameLimit
  <2> QED BY <2>2, <2>3, <2>4 DEF LimitInv, FrameLimitIsExact, Fits, FrameFits, NextCall
<1> QED BY <1>1, <1>2

(* Steps that neither push a frame nor deliver a result keep to the limit.  *)
LEMMA OtherLimit ==
  LimitInv /\ (Poll \/ Yield \/ StayBlocked \/ Cancel \/ UNCHANGED vars) => LimitInv'
BY DEF Poll, Yield, StayBlocked, Polls, Cancel, vars, LimitInv, FrameLimitIsExact, Stack, Fits,
       FrameFits, NextCall

(* Every step keeps to the limit.                                           *)
LEMMA NextLimit == ChainInv /\ LimitInv /\ [Next]_vars => LimitInv'
BY AwaitIoLimit, RequestLimit, SucceedLimit, FailLimit, CompleteIoLimit, DropLimit, EndLimit,
   OtherLimit
   DEF Next, Iterate

(* The first frame is within the limit.                                     *)
LEMMA InitLimit == Init => LimitInv
<1> SUFFICES ASSUME Init PROVE LimitInv
  OBVIOUS
<1> DEFINE f == NewFrame(root, 0)
<1>1. f.next = 0 /\ f.inbox = NoReply
  BY DEF NewFrame
<1>2. Stack = <<f>> /\ frames = <<f>> /\ receive = NoReply /\ result = NoReply
  BY DEF Init, Stack
<1> HIDE DEF f
<1>3. FrameFits(f, 1)
  BY <1>1 DEF FrameFits, NoReply
<1>4. Fits(Stack)
  BY <1>2, <1>3 DEF Fits
<1> QED BY <1>2, <1>4, BoundAssumption
    DEF LimitInv, FrameLimitIsExact, NoReply, FrameLimit

(* The stack never exceeds the limit, an expression that needs more frames  *)
(* than the limit never gives a value, and one that needs no more is never  *)
(* refused for it, however often its operands are evaluated.                *)
THEOREM LimitIsExact == Spec => []FrameLimitIsExact
<1>1. LimitInv => FrameLimitIsExact
  BY DEF LimitInv
<1> QED BY <1>1, InitLimit, NextLimit, Chain, PTL DEF Spec

(* Within a poll of the task, every frame poll that does not end it is paid *)
(* for.                                                                     *)
PaidInv ==
  /\ burst <= Budget
  /\ phase = "polling" => burst + budget <= Budget

(* One poll of the task makes at most Budget frame polls, however many      *)
(* frames are ready to run.                                                 *)
THEOREM PollsAreBounded == Spec => []BoundedPoll
<1>1. Init => PaidInv
  BY BoundAssumption DEF Init, PaidInv
<1>2. TypeOK /\ PaidInv /\ [Next]_vars => PaidInv'
  <2> SUFFICES ASSUME TypeOK, PaidInv, [Next]_vars PROVE PaidInv'
    OBVIOUS
  <2>1. Budget \in Nat /\ budget \in Nat /\ burst \in Nat
    BY BoundAssumption DEF TypeOK
  <2>2. CASE Poll
    BY <2>1, <2>2 DEF Poll, PaidInv
  <2>3. CASE burst' = burst /\ (phase' # "polling" \/ (phase' = phase /\ budget' = budget))
    BY <2>1, <2>3 DEF PaidInv
  <2>4. CASE /\ phase = "polling" /\ budget > 0 /\ burst' = burst + 1
             /\ phase' # "polling" \/ budget' = budget - 1
    BY <2>1, <2>4 DEF PaidInv
  <2> QED BY <2>2, <2>3, <2>4
    DEF Next, Iterate, vars, Yield, RefuseFrame, RefuseMemory, AwaitIo, Request, Succeed, Fail, Propagate,
        Return, StayBlocked, Deliver, CompleteIo, Cancel, Drop, ReleaseSlot, ReleaseFrame,
        Released, Polls, Proceeds, BudgetSpent
<1>3. PaidInv => BoundedPoll
  BY DEF PaidInv, BoundedPoll
<1> QED BY <1>1, <1>2, <1>3, TypeCorrect, PTL DEF Spec

(* A driver that returned Pending has been told to poll again or waits for  *)
(* the I/O of one of its frames: its task is not forgotten.                 *)
THEOREM NoWakeupIsLost == Spec => []NoLostWakeup
<1>1. Init => NoLostWakeup
  BY DEF Init, NoLostWakeup
<1>2. ChainInv /\ NoLostWakeup /\ [Next]_vars => NoLostWakeup'
  <2> SUFFICES ASSUME ChainInv, NoLostWakeup, [Next]_vars PROVE NoLostWakeup'
    OBVIOUS
  <2>1. CASE AwaitIo
    <3> DEFINE g == [Resumed(Top) EXCEPT !.stage = "io"]
    <3>1. /\ Top \in Frames /\ FrameSound(root, Top, Depth) /\ Runnable(Top) /\ Depth \in Nat
          /\ root \in Roots /\ Stack \in Seq(Frames) /\ Depth \in 1..Depth
      BY <2>1, StackFacts DEF AwaitIo, Polls
    <3>2. Resumed(Top) \in Frames
      BY <3>1, ResumedSound
    <3>3. g.stage = "io" /\ g \in Frames
      BY <3>2 DEF Frames, Stages
    <3>4. frames' = [Stack EXCEPT ![Depth] = g]
      BY <2>1 DEF AwaitIo, Replaced
    <3> HIDE DEF g
    <3>5. Depth \in 1..Len(frames') /\ frames'[Depth] = g
      BY <3>1, <3>3, <3>4 DEF Depth
    <3> QED BY <3>3, <3>5 DEF NoLostWakeup
  <2>2. CASE StayBlocked
    <3>1. /\ Top \in Frames /\ Stack # <<>> /\ phase = "polling" /\ frames' = frames
          /\ ~Runnable(Top) /\ Top.inbox.tag # "error" /\ FrameSound(root, Top, Depth)
      BY <2>2, StackFacts DEF StayBlocked, Polls, Proceeds
    <3>2. Top.stage = "io"
      BY <3>1 DEF ChainInv, TopReady, Active, Runnable, Frames, Stages, FrameSound
    <3>3. slot = <<>>
      <4>1. ASSUME slot # <<>> PROVE Top = slot[1]
        BY <4>1, StackShape DEF ChainInv, SlotSound, TypeOK, Stack, Top, Depth
      <4> QED BY <3>2, <4>1 DEF ChainInv, SlotSound
    <3>4. Stack = frames
      BY <3>3, ConcatEmptySeq DEF ChainInv, TypeOK, Stack
    <3>5. Depth \in 1..Len(frames) /\ frames[Depth] = Top
      BY <3>1, <3>4, StackFacts DEF Depth, Top
    <3> QED BY <3>1, <3>2, <3>5 DEF NoLostWakeup
  <2>3. CASE phase' # "suspended" \/ woken' = TRUE
    BY <2>3 DEF NoLostWakeup
  <2>4. CASE UNCHANGED vars
    BY <2>4 DEF NoLostWakeup, vars
  <2> QED BY <2>1, <2>2, <2>3, <2>4
    DEF Next, Iterate, Poll, Yield, RefuseFrame, RefuseMemory, Request, Succeed, Fail, Propagate, Return,
        Deliver, CompleteIo, Cancel, Drop, ReleaseSlot, ReleaseFrame, Released, Polls, Proceeds
<1> QED BY <1>1, <1>2, Chain, PTL DEF Spec
--------------------------------------------------------------------------------
(* The order of destruction.                                                *)
ReleasesTop ==
  Len(frames') < Len(frames) =>
    /\ slot' = <<>>
    /\ \A i \in 1..Len(frames') : frames'[i].node = frames[i].node
    /\ phase = "draining" => slot = <<>>

(* A frame that returns is the top one.                                     *)
LEMMA ReturnReleasesTop ==
  ASSUME ChainInv, Polls, NEW v, Return(v)
  PROVE  ReleasesTop
<1> DEFINE below == SubSeq(Stack, 1, Depth - 1)
<1>1. /\ Stack \in Seq(Frames) /\ Stack # <<>> /\ Depth = Len(Stack) /\ Depth \in Nat
      /\ frames \in Seq(Frames) /\ slot \in Seq(Frames) /\ Len(slot) \in {0, 1}
      /\ phase = "polling" /\ slot' = <<>> /\ Len(frames) \in Nat
  BY StackFacts DEF Polls, Proceeds, Depth, ChainInv, TypeOK, SlotSound, Return
<1>2. /\ below \in Seq(Frames) /\ Len(below) = Depth - 1
      /\ \A i \in 1..(Depth - 1) : below[i] = Stack[i]
  BY <1>1, FrontOf
<1>3. \/ frames' = [below EXCEPT ![Top.to] = [@ EXCEPT !.inbox = v]]
      \/ frames' = below
  BY DEF Return
<1> HIDE DEF below
<1>4. /\ Len(frames') = Depth - 1
      /\ \A i \in 1..(Depth - 1) : frames'[i].node = below[i].node
  <2>1. ASSUME NEW i \in 1..(Depth - 1) PROVE below[i] \in Frames
    BY <1>2
  <2>2. CASE frames' = below
    BY <1>2, <2>2
  <2>3. CASE frames' = [below EXCEPT ![Top.to] = [@ EXCEPT !.inbox = v]]
    <3>1. DOMAIN frames' = 1..(Depth - 1) /\ Len(frames') = Depth - 1
      BY <1>2, <2>3
    <3>2. ASSUME NEW i \in 1..(Depth - 1) PROVE frames'[i].node = below[i].node
      BY <1>2, <2>1, <2>3 DEF Frames
    <3> QED BY <3>1, <3>2
  <2> QED BY <1>3, <2>2, <2>3
<1>5. CASE slot = <<>>
  BY <1>1, <1>2, <1>4, <1>5, ConcatEmptySeq DEF Stack, ReleasesTop
<1>6. CASE slot # <<>>
  BY <1>1, <1>4, <1>6, StackShape DEF Stack, ReleasesTop
<1> QED BY <1>5, <1>6

(* Every step releases frames from the top of the stack, if any.            *)
LEMMA NextReleasesTop == ChainInv /\ Next => ReleasesTop
<1> SUFFICES ASSUME ChainInv, Next PROVE ReleasesTop
  OBVIOUS
<1>1. /\ frames \in Seq(Frames) /\ slot \in Seq(Frames) /\ Len(slot) \in {0, 1}
      /\ Len(frames) \in Nat /\ Stack \in Seq(Frames) /\ Depth \in Nat
      /\ Depth >= Len(frames)
  <2>1. frames \in Seq(Frames) /\ slot \in Seq(Frames) /\ Len(slot) \in {0, 1}
    BY DEF ChainInv, TypeOK, SlotSound
  <2> QED BY <2>1, StackFacts, ConcatProperties DEF Stack, Depth
<1>2. CASE AwaitIo \/ Request
  <2>1. PICK g : frames' = Replaced(g)
    BY <1>2 DEF AwaitIo, Request
  <2>2. Len(frames') = Depth
    BY <1>1, <2>1 DEF Replaced, Depth
  <2> QED BY <1>1, <2>2 DEF ReleasesTop
<1>3. CASE Succeed \/ Fail \/ Propagate
  BY <1>3, ReturnReleasesTop DEF Succeed, Fail, Propagate
<1>4. CASE ReleaseFrame
  <2>1. /\ slot = <<>> /\ slot' = <<>> /\ frames # <<>>
        /\ frames' = SubSeq(frames, 1, Len(frames) - 1)
    BY <1>4 DEF ReleaseFrame
  <2>2. Len(frames') = Len(frames) - 1 /\ \A i \in 1..(Len(frames) - 1) : frames'[i] = frames[i]
    BY <1>1, <2>1, FrontOf
  <2> QED BY <2>1, <2>2 DEF ReleasesTop
<1>5. CASE CompleteIo
  <2>1. Len(frames') = Len(frames)
    BY <1>1, <1>5 DEF CompleteIo
  <2> QED BY <1>1, <2>1 DEF ReleasesTop
<1>6. CASE frames' = frames
  BY <1>1, <1>6 DEF ReleasesTop
<1> QED BY <1>2, <1>3, <1>4, <1>5, <1>6
    DEF Next, Iterate, Poll, Yield, RefuseFrame, RefuseMemory, StayBlocked, Deliver, Cancel,
        Drop, ReleaseSlot, Released

(* A frame is destroyed before the frame that called it and after whatever  *)
(* it has called, by its own return as by the drop of the driver.           *)
THEOREM FramesGoFromTheTop == Spec => ChildBeforeParent
<1>1. ChainInv /\ [Next]_vars => [ReleasesTop]_vars
  BY NextReleasesTop
<1>2. Spec => [][ReleasesTop]_vars
  BY <1>1, Chain, PTL DEF Spec
<1> QED BY <1>2 DEF ChildBeforeParent, ReleasesTop

--------------------------------------------------------------------------------
(****************************************************************************)
(* EvaluationDriver implements InOrderEvaluation, for every expression,     *)
(* frame limit and budget: only a leaf's reply adds to what the stack holds,*)
(* and it is the next leaf of the expression.                               *)
(****************************************************************************)

(* Numbers are ordered.                                                     *)
LEMMA Ordered == \A a, b \in Nat : ~(b < a) => a <= b
OBVIOUS

(* A non-empty set of numbers has a least one.                              *)
LEMMA LeastNumber ==
  ASSUME NEW S \in SUBSET Nat, S # {}
  PROVE  \E x \in S : \A y \in S : x <= y
<1> DEFINE R == OpToRel(<, Nat)
<1>1. IsWellFoundedOn(R, Nat)
  BY NatLessThanWellFounded
<1>2. \E x \in S : \A y \in S : ~(<<y, x>> \in R)
  <2> HIDE DEF R
  <2> QED BY <1>1, WFMin
<1>3. \A x, y \in S : ~(<<y, x>> \in R) => x <= y
  <2> SUFFICES ASSUME NEW x \in S, NEW y \in S, ~(<<y, x>> \in R) PROVE x <= y
    OBVIOUS
  <2>1. x \in Nat /\ y \in Nat /\ <<y, x>> \in Nat \X Nat
    OBVIOUS
  <2>2. ~(y < x)
    BY <2>1 DEF OpToRel
  <2> QED BY <2>1, <2>2, Ordered
<1> QED BY <1>2, <1>3

--------------------------------------------------------------------------------
(* What frames hold, defined up to a height n of the stack.                 *)
Holds(f) == f.got \o f.inbox.leaves

IsHeld(g, s, n) ==
  g = [i \in 0..n |-> IF i = 0 THEN <<>> ELSE g[i - 1] \o (s[i].got \o s[i].inbox.leaves)]

(* There is such a function.                                                *)
LEMMA HeldExists ==
  ASSUME NEW s \in Seq(Frames), NEW m \in 0..Len(s)
  PROVE  \E g : IsHeld(g, s, m)
<1> DEFINE S == {n \in 0..Len(s) : ~\E g : IsHeld(g, s, n)}
<1> SUFFICES ASSUME S # {} PROVE FALSE
  OBVIOUS
<1>1. Len(s) \in Nat
  OBVIOUS
<1>2. S \in SUBSET Nat
  BY <1>1
<1>3. PICK n \in S : \A k \in S : n <= k
  BY <1>2, LeastNumber
<1>4. n \in 0..Len(s) /\ ~\E g : IsHeld(g, s, n)
  BY <1>3
<1>5. n # 0
  <2> SUFFICES ASSUME n = 0 PROVE FALSE
    OBVIOUS
  <2> DEFINE g == [i \in 0..0 |-> <<>>]
  <2>1. \A i \in 0..0 : i = 0
    OBVIOUS
  <2>2. IsHeld(g, s, 0)
    BY <2>1 DEF IsHeld
  <2> QED BY <1>4, <2>2
<1>6. n - 1 \in 0..Len(s) /\ ~(n <= n - 1)
  BY <1>1, <1>4, <1>5
<1>7. n - 1 \notin S
  BY <1>3, <1>6
<1>8. PICK g : IsHeld(g, s, n - 1)
  BY <1>6, <1>7
<1> DEFINE h == [i \in 0..n |-> IF i < n THEN g[i] ELSE g[n - 1] \o (s[n].got \o s[n].inbox.leaves)]
<1>9. h = [i \in 0..n |-> IF i = 0 THEN <<>> ELSE h[i - 1] \o (s[i].got \o s[i].inbox.leaves)]
  <2> SUFFICES ASSUME NEW i \in 0..n
               PROVE  h[i] = IF i = 0 THEN <<>> ELSE h[i - 1] \o (s[i].got \o s[i].inbox.leaves)
    OBVIOUS
  <2>1. n \in Nat /\ i \in Nat /\ i <= n
    BY <1>1, <1>4
  <2>2. CASE i < n
    <3>1. i \in 0..(n - 1) /\ h[i] = g[i]
      BY <2>1, <2>2
    <3>2. g[i] = IF i = 0 THEN <<>> ELSE g[i - 1] \o (s[i].got \o s[i].inbox.leaves)
      BY <1>8, <3>1 DEF IsHeld
    <3>3. i # 0 => h[i - 1] = g[i - 1]
      BY <2>1, <2>2
    <3> QED BY <3>1, <3>2, <3>3
  <2>3. CASE i = n
    <3>1. h[i - 1] = g[n - 1] /\ h[i] = g[n - 1] \o (s[n].got \o s[n].inbox.leaves)
      BY <1>5, <2>1, <2>3
    <3> QED BY <1>5, <2>3, <3>1
  <2> QED BY <2>1, <2>2, <2>3
<1>10. IsHeld(h, s, n)
  BY <1>9 DEF IsHeld
<1> QED BY <1>4, <1>10

(* It depends on the frames below alone.                                    *)
LEMMA HeldSame ==
  ASSUME NEW s \in Seq(Frames), NEW t \in Seq(Frames), NEW k \in Nat,
         k <= Len(s), k <= Len(t), \A i \in 1..k : s[i] = t[i],
         NEW g, IsHeld(g, s, Len(s)), NEW h, IsHeld(h, t, Len(t))
  PROVE  g[k] = h[k]
<1> DEFINE S == {i \in 0..k : g[i] # h[i]}
<1> SUFFICES ASSUME S # {} PROVE FALSE
  OBVIOUS
<1>0. S \in SUBSET Nat
  OBVIOUS
<1>1. PICK i \in S : \A j \in S : i <= j
  BY <1>0, LeastNumber
<1>2. i \in 0..k /\ g[i] # h[i] /\ Len(s) \in Nat /\ Len(t) \in Nat
  BY <1>1
<1>3. i \in 0..Len(s) /\ i \in 0..Len(t)
  BY <1>2
<1>4. /\ g[i] = IF i = 0 THEN <<>> ELSE g[i - 1] \o (s[i].got \o s[i].inbox.leaves)
      /\ h[i] = IF i = 0 THEN <<>> ELSE h[i - 1] \o (t[i].got \o t[i].inbox.leaves)
  BY <1>3 DEF IsHeld
<1>5. i # 0
  BY <1>2, <1>4
<1>6. i - 1 \in 0..k /\ ~(i <= i - 1) /\ i \in 1..k
  BY <1>2, <1>5
<1>7. g[i - 1] = h[i - 1]
  BY <1>1, <1>6
<1> QED BY <1>2, <1>4, <1>5, <1>6, <1>7

(* Held is that function.                                                   *)
LEMMA HeldIs ==
  ASSUME NEW s \in Seq(Frames)
  PROVE  IsHeld(Held(s), s, Len(s))
<1>1. Len(s) \in 0..Len(s)
  OBVIOUS
<1>2. \E g : IsHeld(g, s, Len(s))
  BY <1>1, HeldExists
<1> QED BY <1>2 DEF IsHeld, Held

(* What frames hold, from the lowest on.                                    *)
LEMMA HeldFacts ==
  ASSUME NEW s \in Seq(Frames)
  PROVE  /\ Held(s)[0] = <<>>
         /\ \A i \in 1..Len(s) : Held(s)[i] = Held(s)[i - 1] \o Holds(s[i])
         /\ \A i \in 1..Len(s) : Holds(s[i]) \in Seq(Nodes)
         /\ \A i \in 0..Len(s) : Held(s)[i] \in Seq(Nodes)
<1>1. IsHeld(Held(s), s, Len(s)) /\ Len(s) \in Nat
  BY HeldIs
<1>2. Held(s)[0] = <<>>
  <2>1. 0 \in 0..Len(s)
    BY <1>1
  <2> QED BY <1>1, <2>1 DEF IsHeld
<1>3. ASSUME NEW i \in 1..Len(s) PROVE Held(s)[i] = Held(s)[i - 1] \o Holds(s[i])
  <2>1. i \in 0..Len(s) /\ i # 0
    BY <1>1
  <2> QED BY <1>1, <2>1 DEF IsHeld, Holds
<1>4. ASSUME NEW i \in 1..Len(s) PROVE Holds(s[i]) \in Seq(Nodes)
  <2>1. s[i] \in Frames
    OBVIOUS
  <2>2. s[i].got \in Seq(Nodes) /\ s[i].inbox.leaves \in Seq(Nodes)
    BY <2>1 DEF Frames, Replies
  <2> QED BY <2>2, ConcatProperties DEF Holds
<1> DEFINE S == {i \in 0..Len(s) : Held(s)[i] \notin Seq(Nodes)}
<1>5. ASSUME S # {} PROVE FALSE
  <2>1. S \in SUBSET Nat
    BY <1>1
  <2>2. PICK i \in S : \A j \in S : i <= j
    BY <1>5, <2>1, LeastNumber
  <2>3. i \in 0..Len(s) /\ Held(s)[i] \notin Seq(Nodes)
    BY <2>2
  <2>4. i # 0
    <3>1. <<>> \in Seq(Nodes)
      OBVIOUS
    <3> QED BY <1>2, <2>3, <3>1
  <2>5. i - 1 \in 0..Len(s) /\ ~(i <= i - 1) /\ i \in 1..Len(s)
    BY <1>1, <2>3, <2>4
  <2>6. Held(s)[i - 1] \in Seq(Nodes)
    BY <2>2, <2>5
  <2>7. Held(s)[i] = Held(s)[i - 1] \o Holds(s[i]) /\ Holds(s[i]) \in Seq(Nodes)
    BY <1>3, <1>4, <2>5
  <2> QED BY <2>3, <2>6, <2>7, ConcatProperties
<1> QED BY <1>2, <1>3, <1>4, <1>5

(* Frames that two stacks have in common hold the same.                     *)
LEMMA HeldCommon ==
  ASSUME NEW s \in Seq(Frames), NEW t \in Seq(Frames), NEW k \in Nat,
         k <= Len(s), k <= Len(t), \A i \in 1..k : s[i] = t[i]
  PROVE  Held(s)[k] = Held(t)[k]
BY HeldIs, HeldSame

--------------------------------------------------------------------------------
(* Sequences of leaves, put together either way.                            *)
LEMMA Assoc ==
  \A a, b, c \in Seq(Nodes) : (a \o b) \o c = a \o (b \o c)
BY ConcatAssociative

(* The leaves of a node are a sequence.                                     *)
LEMMA LeavesType ==
  ASSUME NEW n \in Nodes
  PROVE  /\ Len(Calls[n]) \in Nat
         /\ Leaves(n) \in Seq(Nodes)
         /\ \A k \in 0..Len(Calls[n]) : Partial[n][k] \in Seq(Nodes)
<1>1. Calls[n] \in Seq(Nodes) /\ Len(Calls[n]) \in Nat
  BY GraphAssumption
<1>2. \A k \in 0..Len(Calls[n]) : Partial[n][k] \in Seq(Nodes)
  BY PartialAssumption
<1>3. <<n>> \in Seq(Nodes) /\ Len(Calls[n]) \in 0..Len(Calls[n])
  BY <1>1
<1> QED BY <1>1, <1>2, <1>3 DEF Leaves

(* What a node has read is a beginning of what it will have read.           *)
LEMMA PartialBegins ==
  ASSUME NEW n \in Nodes, NEW k \in 0..Len(Calls[n])
  PROVE  \E rest \in Seq(Nodes) : Partial[n][Len(Calls[n])] = Partial[n][k] \o rest
<1> DEFINE L == Len(Calls[n])
           Fails(j) == ~\E rest \in Seq(Nodes) : Partial[n][L] = Partial[n][j] \o rest
           S == {d \in 0..L : Fails(L - d)}
<1>1. L \in Nat /\ \A j \in 0..L : Partial[n][j] \in Seq(Nodes)
  BY LeavesType
<1> HIDE DEF L
<1>2. ASSUME S # {} PROVE FALSE
  <2>1. S \in SUBSET Nat
    BY <1>1
  <2>2. PICK d \in S : \A e \in S : d <= e
    BY <1>2, <2>1, LeastNumber
  <2>3. d \in 0..L /\ Fails(L - d)
    BY <2>2
  <2>4. d # 0
    <3> SUFFICES ASSUME d = 0 PROVE FALSE
      OBVIOUS
    <3>1. L - d = L /\ L \in 0..L
      BY <1>1
    <3>2. <<>> \in Seq(Nodes) /\ Partial[n][L] = Partial[n][L] \o <<>>
      BY <1>1, <3>1, ConcatEmptySeq
    <3> QED BY <2>3, <3>1, <3>2
  <2>5. d - 1 \in 0..L /\ ~(d <= d - 1) /\ L - (d - 1) = (L - d) + 1
        /\ L - d \in 0..L /\ (L - d) + 1 \in 1..L /\ (L - d) + 1 \in 0..L
        /\ ((L - d) + 1) - 1 = L - d
    BY <1>1, <2>3, <2>4
  <2>6. ~Fails((L - d) + 1)
    BY <2>2, <2>5
  <2>7. PICK rest \in Seq(Nodes) : Partial[n][L] = Partial[n][(L - d) + 1] \o rest
    BY <2>6
  <2> DEFINE j == (L - d) + 1
             m == Calls[n][j]
  <2>8. m \in Nodes
    <3>1. Calls[n] \in Seq(Nodes) /\ j \in 1..Len(Calls[n])
      BY <2>5, GraphAssumption DEF L
    <3> QED BY <3>1
  <2>9. Partial[n][j] = Partial[n][L - d] \o Leaves(m)
    BY <2>5, PartialAssumption DEF L
  <2>10. /\ Leaves(m) \in Seq(Nodes) /\ Partial[n][L - d] \in Seq(Nodes)
         /\ Leaves(m) \o rest \in Seq(Nodes)
    BY <1>1, <2>5, <2>8, LeavesType, ConcatProperties
  <2> HIDE DEF m, j
  <2>11. Partial[n][L] = Partial[n][L - d] \o (Leaves(m) \o rest)
    <3>1. Partial[n][L] = (Partial[n][L - d] \o Leaves(m)) \o rest
      BY <2>7, <2>9 DEF j
    <3>2. Leaves(m) \in Seq(Nodes) /\ Partial[n][L - d] \in Seq(Nodes) /\ rest \in Seq(Nodes)
      BY <2>10
    <3>3. (Partial[n][L - d] \o Leaves(m)) \o rest = Partial[n][L - d] \o (Leaves(m) \o rest)
      BY <3>2, Assoc
    <3> QED BY <3>1, <3>3
  <2> QED BY <2>3, <2>10, <2>11
<1>3. L - k \in 0..L /\ L - (L - k) = k
  <2>1. k \in 0..L
    BY DEF L
  <2> QED BY <1>1, <2>1
<1>4. ~Fails(k)
  BY <1>2, <1>3
<1> QED BY <1>4 DEF L

(* What a node has read, the operand it reads next and what follows.        *)
LEMMA CallBegins ==
  ASSUME NEW n \in Nodes, NEW k \in Nat, k < Len(Calls[n])
  PROVE  \E rest \in Seq(Nodes) :
           Leaves(n) = Partial[n][k] \o (Leaves(Calls[n][k + 1]) \o rest)
<1>1. /\ Len(Calls[n]) \in Nat /\ Calls[n] \in Seq(Nodes)
      /\ k + 1 \in 0..Len(Calls[n]) /\ k + 1 \in 1..Len(Calls[n]) /\ (k + 1) - 1 = k
      /\ k \in 0..Len(Calls[n])
  BY LeavesType, GraphAssumption
<1>2. Leaves(n) = Partial[n][Len(Calls[n])]
  <2>1. Calls[n] # <<>>
    BY <1>1
  <2> QED BY <2>1 DEF Leaves, IsLeaf
<1>3. PICK rest \in Seq(Nodes) : Partial[n][Len(Calls[n])] = Partial[n][k + 1] \o rest
  BY <1>1, PartialBegins
<1>4. Partial[n][k + 1] = Partial[n][(k + 1) - 1] \o Leaves(Calls[n][k + 1])
  BY <1>1, PartialAssumption
<1>5. Calls[n][k + 1] \in Nodes /\ Partial[n][k] \in Seq(Nodes)
  BY <1>1, LeavesType
<1>6. Leaves(Calls[n][k + 1]) \in Seq(Nodes)
  BY <1>5, LeavesType
<1>7. (Partial[n][k] \o Leaves(Calls[n][k + 1])) \o rest
        = Partial[n][k] \o (Leaves(Calls[n][k + 1]) \o rest)
  BY <1>5, <1>6, Assoc
<1> QED BY <1>1, <1>2, <1>3, <1>4, <1>7

(* What the frames below a frame hold, and the leaves of its node, are a    *)
(* beginning of the leaves of the expression.                               *)
LEMMA StackBegins ==
  ASSUME NEW r \in Roots, NEW s \in Seq(Frames), ChainSound(r, s), NEW k \in 1..Len(s)
  PROVE  \E rest \in Seq(Nodes) : Leaves(r) = Held(s)[k - 1] \o (Leaves(s[k].node) \o rest)
<1> DEFINE Fails(i) == ~\E rest \in Seq(Nodes) :
                          Leaves(r) = Held(s)[i - 1] \o (Leaves(s[i].node) \o rest)
           S == {i \in 1..Len(s) : Fails(i)}
<1>1. Len(s) \in Nat /\ r \in Nodes
  BY RootProperties
<1> SUFFICES ASSUME S # {} PROVE FALSE
  OBVIOUS
<1>2. S \in SUBSET Nat
  <2> HIDE DEF Fails
  <2>1. \A i \in 1..Len(s) : i \in Nat
    BY <1>1
  <2> QED BY <2>1
<1>3. PICK i \in S : \A j \in S : i <= j
  BY <1>2, LeastNumber
<1>4. i \in 1..Len(s) /\ Fails(i)
  BY <1>3
<1>5. i # 1
  <2> SUFFICES ASSUME i = 1 PROVE FALSE
    OBVIOUS
  <2>1. Held(s)[1 - 1] = <<>>
    <3>1. 1 - 1 = 0
      OBVIOUS
    <3> QED BY <3>1, HeldFacts
  <2>4. s[1].node = r
    <3>1. s # <<>>
      BY <1>1, <1>4
    <3> QED BY <3>1 DEF ChainSound
  <2>2. Leaves(r) \in Seq(Nodes) /\ <<>> \in Seq(Nodes)
    BY <1>1, LeavesType
  <2>3. Leaves(r) = <<>> \o (Leaves(r) \o <<>>)
    BY <2>2, ConcatEmptySeq
  <2> QED BY <1>4, <2>1, <2>2, <2>3, <2>4
<1> DEFINE j == i - 1
           f == s[j]
           n == f.node
           m == s[i].node
<1>6. /\ j \in 1..Len(s) /\ j \in 1..(Len(s) - 1) /\ j + 1 = i /\ ~(i <= j)
      /\ j - 1 \in 0..Len(s) /\ j \in Nat
  BY <1>1, <1>4, <1>5
<1>7. ~Fails(j)
  BY <1>3, <1>6
<1> HIDE DEF j
<1>8. PICK rest \in Seq(Nodes) : Leaves(r) = Held(s)[j - 1] \o (Leaves(n) \o rest)
  BY <1>7
<1>9. f \in Frames /\ FrameSound(r, f, j) /\ Awaits(f, m)
  <2>1. s[j + 1].node = m
    BY <1>6
  <2> QED BY <1>6, <2>1 DEF ChainSound
<1> HIDE DEF f, m
<1>10. /\ n \in Nodes /\ f.next \in Nat /\ f.next < Len(Calls[n]) /\ m = Calls[n][f.next + 1]
       /\ f.got = Partial[n][f.next] /\ f.inbox.leaves = <<>> /\ f.got \in Seq(Nodes)
  <2>1. n \in Nodes /\ f.next \in Nat /\ f.got \in Seq(Nodes)
    BY <1>9 DEF Frames
  <2>2. f.stage = "child" /\ f.inbox = NoReply /\ m = Calls[n][f.next + 1]
    BY <1>9 DEF Awaits, NextCall
  <2>3. f.next < Len(Calls[n]) /\ f.got = Partial[n][f.next]
    BY <1>9, <2>2 DEF FrameSound
  <2>4. f.inbox.leaves = <<>>
    BY <2>2 DEF NoReply
  <2> QED BY <2>1, <2>2, <2>3, <2>4
<1> HIDE DEF n
<1>11. PICK more \in Seq(Nodes) : Leaves(n) = f.got \o (Leaves(m) \o more)
  BY <1>10, CallBegins
<1>12. m \in Nodes
  BY <1>10, CallProperties
<1>13. Holds(f) = f.got
  BY <1>10, ConcatEmptySeq DEF Holds
<1>14. Held(s)[j] = Held(s)[j - 1] \o f.got /\ Held(s)[j - 1] \in Seq(Nodes)
  BY <1>6, <1>13, HeldFacts DEF f
<1>15. /\ Leaves(m) \in Seq(Nodes) /\ more \o rest \in Seq(Nodes)
       /\ Leaves(m) \o more \in Seq(Nodes) /\ Leaves(m) \o (more \o rest) \in Seq(Nodes)
  BY <1>12, LeavesType, ConcatProperties
<1>16. Leaves(n) \o rest = f.got \o (Leaves(m) \o (more \o rest))
  <2>1. (f.got \o (Leaves(m) \o more)) \o rest = f.got \o ((Leaves(m) \o more) \o rest)
    <3>1. f.got \in Seq(Nodes) /\ Leaves(m) \o more \in Seq(Nodes) /\ rest \in Seq(Nodes)
      BY <1>10, <1>15
    <3> QED BY <3>1, Assoc
  <2>2. (Leaves(m) \o more) \o rest = Leaves(m) \o (more \o rest)
    BY <1>15, Assoc
  <2> QED BY <1>11, <2>1, <2>2
<1>17. Leaves(r) = Held(s)[j] \o (Leaves(m) \o (more \o rest))
  <2>1. (Held(s)[j - 1] \o f.got) \o (Leaves(m) \o (more \o rest))
          = Held(s)[j - 1] \o (f.got \o (Leaves(m) \o (more \o rest)))
    <3>1. /\ Held(s)[j - 1] \in Seq(Nodes) /\ f.got \in Seq(Nodes)
          /\ Leaves(m) \o (more \o rest) \in Seq(Nodes)
      BY <1>10, <1>14, <1>15
    <3> QED BY <3>1, Assoc
  <2> QED BY <1>8, <1>14, <1>16, <2>1
<1>18. Leaves(r) = Held(s)[i - 1] \o (Leaves(s[i].node) \o (more \o rest))
  BY <1>17 DEF m, j
<1> QED BY <1>4, <1>15, <1>18

--------------------------------------------------------------------------------
(* What a stack holds when its top changes.                                 *)
LEMMA HeldReplaced ==
  ASSUME NEW s \in Seq(Frames), s # <<>>, NEW f \in Frames
  PROVE  /\ [s EXCEPT ![Len(s)] = f] \in Seq(Frames)
         /\ Len([s EXCEPT ![Len(s)] = f]) = Len(s)
         /\ [s EXCEPT ![Len(s)] = f][Len(s)] = f
         /\ Held([s EXCEPT ![Len(s)] = f])[Len(s)] = Held(s)[Len(s) - 1] \o Holds(f)
<1> DEFINE t == [s EXCEPT ![Len(s)] = f]
<1>1. /\ t \in Seq(Frames) /\ Len(t) = Len(s) /\ t[Len(s)] = f
      /\ \A i \in 1..(Len(s) - 1) : t[i] = s[i]
      /\ Len(s) \in Nat /\ Len(s) \in 1..Len(s)
  <2>1. Len(s) \in Nat /\ Len(s) \in 1..Len(s)
    OBVIOUS
  <2> QED BY <2>1, ExceptSeq
<1> HIDE DEF t
<1>2. Len(s) - 1 \in Nat /\ Len(s) - 1 <= Len(s)
  BY <1>1
<1>3. Held(t)[Len(s) - 1] = Held(s)[Len(s) - 1]
  BY <1>1, <1>2, HeldCommon
<1>4. Held(t)[Len(s)] = Held(t)[Len(s) - 1] \o Holds(f)
  BY <1>1, HeldFacts
<1> QED BY <1>1, <1>3, <1>4 DEF t

(* A new frame holds nothing.                                               *)
LEMMA HeldAppended ==
  ASSUME NEW s \in Seq(Frames), NEW f \in Frames, Holds(f) = <<>>
  PROVE  Held(Append(s, f))[Len(s) + 1] = Held(s)[Len(s)]
<1> DEFINE t == Append(s, f)
<1>1. /\ t \in Seq(Frames) /\ Len(t) = Len(s) + 1 /\ t[Len(s) + 1] = f
      /\ \A i \in 1..Len(s) : t[i] = s[i]
      /\ Len(s) \in Nat
  OBVIOUS
<1> HIDE DEF t
<1>2. Len(s) + 1 \in 1..Len(t) /\ (Len(s) + 1) - 1 = Len(s) /\ Len(s) <= Len(t) /\ Len(s) <= Len(s)
      /\ Len(s) \in 0..Len(s)
  BY <1>1
<1>3. Held(t)[Len(s)] = Held(s)[Len(s)]
  BY <1>1, <1>2, HeldCommon
<1>4. Held(t)[Len(s) + 1] = Held(t)[(Len(s) + 1) - 1] \o Holds(t[Len(s) + 1])
  BY <1>1, <1>2, HeldFacts
<1>5. Held(s)[Len(s)] \in Seq(Nodes)
  BY <1>2, HeldFacts
<1>6. Held(s)[Len(s)] \o <<>> = Held(s)[Len(s)]
  BY <1>5, ConcatEmptySeq
<1> QED BY <1>1, <1>2, <1>3, <1>4, <1>6 DEF t

(* Taking a reply moves what a frame holds, and changes nothing of it.      *)
LEMMA ResumedHolds ==
  ASSUME NEW r \in Roots, NEW f \in Frames, NEW i \in Nat, FrameSound(r, f, i), Runnable(f)
  PROVE  /\ Holds(f) \in Seq(Nodes)
         /\ Resumed(f).got = Holds(f)
         /\ Resumed(f).inbox.leaves = <<>>
<1>1. f.got \in Seq(Nodes) /\ f.inbox.leaves \in Seq(Nodes)
  BY DEF Frames, Replies
<1>2. Resumed(f).inbox = NoReply
  BY ResumedSound
<1>3. CASE f.stage = "child"
  BY <1>1, <1>2, <1>3, ConcatProperties DEF Resumed, Holds, Frames, NoReply
<1>4. CASE f.stage # "child"
  <2>1. Resumed(f) = f /\ f.inbox.leaves = <<>>
    BY <1>2, <1>4 DEF Resumed, NoReply
  <2> QED BY <1>1, <2>1, ConcatEmptySeq DEF Holds
<1> QED BY <1>3, <1>4

--------------------------------------------------------------------------------
(* An evaluation in progress in which no error is on its way is open.       *)
LEMMA OpenNow ==
  ChainInv /\ Active /\ receive.tag # "error" /\ (Stack # <<>> => Top.inbox.tag # "error")
    => Outcome = "open" /\ Reads = Held(Stack)[Depth] \o receive.leaves
<1> SUFFICES ASSUME ChainInv, Active, receive.tag # "error", Stack # <<>> => Top.inbox.tag # "error"
             PROVE  Outcome = "open" /\ Reads = Held(Stack)[Depth] \o receive.leaves
  OBVIOUS
<1>1. Stack \in Seq(Frames) /\ Depth \in Nat /\ Depth = Len(Stack) /\ ChainSound(root, Stack)
  BY StackFacts DEF ChainInv, Depth
<1>2. ASSUME NEW i \in 1..Depth PROVE Stack[i].inbox.tag # "error"
  <2>1. CASE i = Depth
    BY <1>1, <2>1 DEF Top
  <2>2. CASE i # Depth
    <3>1. i \in 1..(Depth - 1)
      BY <1>1, <2>2
    <3>2. Stack[i].inbox = NoReply
      BY <1>1, <3>1 DEF ChainSound, Awaits
    <3> QED BY <3>2 DEF NoReply
  <2> QED BY <2>1, <2>2
<1>3. ~Failing
  BY <1>2 DEF Failing
<1>4. result.tag # "ok" /\ phase \notin {"draining", "gone"}
  BY DEF ChainInv, TopReady, Active, NoReply
<1>5. Outcome = "open"
  BY <1>3, <1>4 DEF Outcome
<1> QED BY <1>5 DEF Reads

(* An evaluation still in progress after a step reads what its frames hold. *)
LEMMA OpenNext ==
  (ChainInv /\ Active /\ receive.tag # "error" /\ (Stack # <<>> => Top.inbox.tag # "error")
     => Outcome = "open" /\ Reads = Held(Stack)[Depth] \o receive.leaves)'
BY OpenNow, PTL

(* Where an evaluation stands whose top frame has not met an error.         *)
LEMMA Standing ==
  ASSUME ChainInv, Active, Stack # <<>>, Top.inbox.tag # "error"
  PROVE  /\ Stack \in Seq(Frames) /\ Depth = Len(Stack) /\ Depth \in Nat /\ Depth \in 1..Depth
         /\ root \in Roots /\ Top = Stack[Depth] /\ Top \in Frames /\ FrameSound(root, Top, Depth)
         /\ ChainSound(root, Stack)
         /\ receive = NoReply /\ result = NoReply /\ Outcome = "open"
         /\ Held(Stack)[Depth - 1] \in Seq(Nodes) /\ Holds(Top) \in Seq(Nodes)
         /\ Reads = Held(Stack)[Depth - 1] \o Holds(Top)
<1>1. /\ Stack \in Seq(Frames) /\ Depth = Len(Stack) /\ Depth \in Nat /\ Depth \in 1..Depth
      /\ root \in Roots /\ Top = Stack[Depth] /\ Top \in Frames /\ FrameSound(root, Top, Depth)
      /\ ChainSound(root, Stack)
  BY StackFacts DEF Depth, Top, ChainInv
<1>2. receive = NoReply /\ result = NoReply
  BY DEF ChainInv, RootReplies, TopReady
<1>3. Outcome = "open" /\ Reads = Held(Stack)[Depth] \o <<>>
  BY <1>2, OpenNow DEF NoReply
<1>4. Depth \in 0..Len(Stack) /\ Depth - 1 \in 0..Len(Stack)
  BY <1>1
<1>5. /\ Held(Stack)[Depth] = Held(Stack)[Depth - 1] \o Holds(Top)
      /\ Holds(Top) \in Seq(Nodes) /\ Held(Stack)[Depth - 1] \in Seq(Nodes)
      /\ Held(Stack)[Depth] \in Seq(Nodes)
  BY <1>1, <1>4, HeldFacts
<1>6. Reads = Held(Stack)[Depth]
  BY <1>3, <1>5, ConcatEmptySeq
<1> QED BY <1>1, <1>2, <1>3, <1>5, <1>6

(* A frame that can run has not.                                            *)
LEMMA RunnableStands ==
  ASSUME ChainInv, Polls, Runnable(Top)
  PROVE  Active /\ Stack # <<>> /\ Top.inbox.tag # "error"
<1>1. Stack # <<>> /\ phase = "polling"
  BY DEF Polls, Proceeds
<1>2. FrameSound(root, Top, Depth)
  BY <1>1, StackFacts
<1> QED BY <1>1, <1>2 DEF Runnable, FrameSound, NoReply, Active

(* A frame without a reply holds what it has taken.                         *)
LEMMA HoldsGot ==
  ASSUME NEW f \in Frames, NEW v \in Seq(Nodes), f.got = v, f.inbox = NoReply
  PROVE  Holds(f) = v /\ f.inbox.tag # "error"
<1>1. f.inbox.leaves = <<>> /\ f.inbox.tag # "error"
  BY DEF NoReply
<1> QED BY <1>1, ConcatEmptySeq DEF Holds

(* The top frame goes on with what it has, and may ask for an operand.      *)
LEMMA TopGoesOn ==
  ASSUME ChainInv, Active, Stack # <<>>, Top.inbox.tag # "error",
         ChainInv', Active', root' = root, receive' = receive,
         NEW g \in Frames, Holds(g) = Holds(Top), g.inbox.tag # "error",
         \/ Stack' = Replaced(g)
         \/ \E h \in Frames : Stack' = Append(Replaced(g), h) /\ Holds(h) = <<>> /\ h.inbox = NoReply
  PROVE  UNCHANGED InOrder!vars
<1>1. /\ Stack \in Seq(Frames) /\ Depth = Len(Stack) /\ Depth \in Nat /\ Top = Stack[Depth]
      /\ receive = NoReply /\ Outcome = "open"
      /\ Held(Stack)[Depth - 1] \in Seq(Nodes) /\ Holds(Top) \in Seq(Nodes)
      /\ Reads = Held(Stack)[Depth - 1] \o Holds(Top)
  BY Standing
<1> DEFINE t == Replaced(g)
<1>2. t \in Seq(Frames) /\ Len(t) = Depth /\ t[Depth] = g /\ Held(t)[Depth] = Reads
  BY <1>1, HeldReplaced DEF Replaced
<1> HIDE DEF t
<1>3. Reads \in Seq(Nodes)
  BY <1>1, ConcatProperties
<1>4. Held(Stack')[Depth'] = Reads /\ Top'.inbox.tag # "error"
  <2>1. CASE Stack' = t
    BY <1>2, <2>1 DEF Depth, Top
  <2>2. ASSUME NEW h \in Frames, Stack' = Append(t, h), Holds(h) = <<>>, h.inbox = NoReply
        PROVE  Held(Stack')[Depth'] = Reads /\ Top'.inbox.tag # "error"
    <3>1. Len(Append(t, h)) = Depth + 1 /\ Append(t, h)[Depth + 1] = h
      BY <1>1, <1>2, AppendProperties
    <3>2. Held(Append(t, h))[Len(t) + 1] = Held(t)[Len(t)]
      BY <1>2, <2>2, HeldAppended
    <3>3. Depth' = Depth + 1 /\ Top' = h
      BY <2>2, <3>1 DEF Depth, Top
    <3> QED BY <1>2, <2>2, <3>2, <3>3 DEF NoReply
  <2> QED BY <2>1, <2>2 DEF t
<1>5. receive'.tag # "error" /\ receive'.leaves = <<>>
  BY <1>1 DEF NoReply
<1>6. Outcome' = "open" /\ Reads' = Reads \o <<>>
  BY <1>4, <1>5, OpenNext
<1>7. Reads' = Reads
  BY <1>3, <1>6, ConcatEmptySeq
<1> QED BY <1>1, <1>6, <1>7 DEF InOrder!vars

(* A frame that awaits I/O keeps what it has.                               *)
LEMMA AwaitIoStutters == ChainInv /\ AwaitIo => UNCHANGED InOrder!vars
<1> SUFFICES ASSUME ChainInv, AwaitIo PROVE UNCHANGED InOrder!vars
  OBVIOUS
<1> DEFINE g == [Resumed(Top) EXCEPT !.stage = "io"]
<1>1. Polls /\ Runnable(Top) /\ frames' = Replaced(g) /\ slot' = <<>> /\ phase' = "suspended"
      /\ root' = root /\ receive' = receive
  BY DEF AwaitIo
<1>2. Active /\ Stack # <<>> /\ Top.inbox.tag # "error" /\ ChainInv'
  BY <1>1, RunnableStands, AwaitIoChain
<1>3. /\ Stack \in Seq(Frames) /\ Depth = Len(Stack) /\ Depth \in Nat /\ root \in Roots
      /\ Top \in Frames /\ FrameSound(root, Top, Depth)
  BY <1>2, Standing
<1>4. /\ Resumed(Top) \in Frames /\ Resumed(Top).got = Holds(Top) /\ Holds(Top) \in Seq(Nodes)
      /\ Resumed(Top).inbox = NoReply
  BY <1>1, <1>3, ResumedSound, ResumedHolds
<1>5. g \in Frames /\ g.got = Holds(Top) /\ g.inbox = NoReply
  BY <1>4 DEF Frames, Stages
<1> HIDE DEF g
<1>6. Holds(g) = Holds(Top) /\ g.inbox.tag # "error"
  BY <1>4, <1>5, HoldsGot
<1>7. frames' \in Seq(Frames)
  BY <1>1, <1>2, <1>3, <1>5, HeldReplaced DEF Replaced
<1>8. Stack' = Replaced(g)
  BY <1>1, <1>7, StackNext
<1> QED BY <1>1, <1>2, <1>5, <1>6, <1>8, TopGoesOn DEF Active

(* So does one that asks for an operand, and the new frame has nothing.     *)
LEMMA RequestStutters == ChainInv /\ Request => UNCHANGED InOrder!vars
<1> SUFFICES ASSUME ChainInv, Request PROVE UNCHANGED InOrder!vars
  OBVIOUS
<1> DEFINE f == Resumed(Top)
           g == [f EXCEPT !.stage = "child"]
           h == NewFrame(NextCall(f), Depth)
<1>1. Polls /\ Runnable(Top) /\ frames' = Replaced(g) /\ slot' = <<h>> /\ phase' = phase
      /\ root' = root /\ receive' = receive
  BY DEF Request
<1>2. Active /\ Stack # <<>> /\ Top.inbox.tag # "error" /\ ChainInv'
  BY <1>1, RunnableStands, RequestChain
<1>3. /\ Stack \in Seq(Frames) /\ Depth = Len(Stack) /\ Depth \in Nat /\ root \in Roots
      /\ Top \in Frames /\ FrameSound(root, Top, Depth)
  BY <1>2, Standing
<1>4. f \in Frames /\ f.got = Holds(Top) /\ Holds(Top) \in Seq(Nodes) /\ f.inbox = NoReply
  BY <1>1, <1>3, ResumedSound, ResumedHolds
<1> HIDE DEF f
<1>5. g \in Frames /\ g.got = Holds(Top) /\ g.inbox = NoReply
  BY <1>4 DEF Frames, Stages
<1> HIDE DEF g
<1>6. Holds(g) = Holds(Top) /\ g.inbox.tag # "error"
  BY <1>4, <1>5, HoldsGot
<1>7. frames' \in Seq(Frames)
  BY <1>1, <1>2, <1>3, <1>5, HeldReplaced DEF Replaced
<1>8. slot' \in Seq(Frames) /\ h \in Frames
  <2>1. slot' \in Seq(Frames)
    BY <1>2 DEF ChainInv, TypeOK
  <2>2. slot'[1] = h /\ 1 \in 1..Len(slot')
    BY <1>1
  <2> QED BY <2>1, <2>2
<1>9. Holds(h) = <<>> /\ h.inbox = NoReply
  <2>1. h.got = <<>> /\ h.inbox = NoReply
    BY DEF NewFrame
  <2>2. <<>> \in Seq(Nodes)
    OBVIOUS
  <2> QED BY <2>1, <2>2, ConcatEmptySeq DEF Holds, NoReply
<1> HIDE DEF h
<1>10. Stack' = Append(Replaced(g), h)
  BY <1>1, <1>7, <1>8, AppendIsConcat DEF Stack
<1>11. Active'
  BY <1>1, <1>2 DEF Active
<1> QED BY <1>1, <1>2, <1>5, <1>6, <1>8, <1>9, <1>10, <1>11, TopGoesOn

(* I/O that ends changes the stage of the top frame alone.                  *)
LEMMA CompleteIoStutters == ChainInv /\ CompleteIo => UNCHANGED InOrder!vars
<1> SUFFICES ASSUME ChainInv, CompleteIo PROVE UNCHANGED InOrder!vars
  OBVIOUS
<1>1. PICK i \in 1..Len(frames) :
        /\ frames[i].stage = "io"
        /\ frames' = [frames EXCEPT ![i] = [@ EXCEPT !.stage = "ready"]]
        /\ phase \in {"suspended", "polling"}
        /\ UNCHANGED <<root, phase, slot, receive, result, budget, burst>>
  BY DEF CompleteIo
<1>2. /\ frames \in Seq(Frames) /\ Len(frames) \in Nat /\ slot \in Seq(Frames)
      /\ frames[i] \in Frames /\ i \in Nat /\ 1 <= i
  BY <1>1 DEF ChainInv, TypeOK
<1>3. slot = <<>> /\ i = Len(frames)
  <2>1. ASSUME i < Depth PROVE FALSE
    <3>1. Stack[i] = frames[i] /\ i \in 1..(Depth - 1)
      BY <1>2, <2>1, StackFacts, ConcatProperties DEF Stack
    <3> QED BY <1>1, <3>1 DEF ChainInv, ChainSound, Depth, Awaits
  <2>2. CASE slot = <<>>
    <3>1. Depth = Len(frames)
      BY <1>2, <2>2, ConcatEmptySeq DEF Stack, Depth
    <3> QED BY <1>2, <2>1, <2>2, <3>1
  <2>3. CASE slot # <<>>
    <3>1. Depth = Len(frames) + 1
      BY <1>2, <2>3, StackShape DEF ChainInv, SlotSound, Stack, Depth
    <3> QED BY <1>2, <2>1, <3>1
  <2> QED BY <2>2, <2>3
<1>4. Stack = frames /\ frames # <<>>
  BY <1>2, <1>3, ConcatEmptySeq DEF Stack
<1>5. Depth = i /\ Top = frames[i]
  BY <1>3, <1>4 DEF Depth, Top
<1>6. Top \in Frames /\ FrameSound(root, Top, Depth)
  BY <1>4, StackFacts
<1>7. Top.inbox = NoReply
  BY <1>1, <1>5, <1>6 DEF FrameSound
<1> DEFINE g == [Top EXCEPT !.stage = "ready"]
<1>8. g \in Frames /\ g.got = Top.got /\ g.inbox = Top.inbox
  BY <1>6 DEF Frames, Stages
<1>9. frames' = [Stack EXCEPT ![Depth] = g]
  BY <1>1, <1>4, <1>5
<1> HIDE DEF g
<1>10. frames' \in Seq(Frames)
  BY <1>4, <1>8, <1>9, HeldReplaced, StackFacts DEF Depth
<1>11. Stack' = Replaced(g)
  BY <1>1, <1>3, <1>9, <1>10, StackNext DEF Replaced
<1>12. Holds(g) = Holds(Top)
  BY <1>8 DEF Holds
<1>13. Active /\ Active'
  BY <1>1 DEF Active
<1> QED BY <1>1, <1>4, <1>7, <1>8, <1>11, <1>12, <1>13, CompleteIoChain, TopGoesOn DEF NoReply

--------------------------------------------------------------------------------
(* A reply takes the place of what its frame held.                          *)
LEMMA ReplyMoves ==
  ASSUME ChainInv, Polls, Runnable(Top), ChainInv',
         NEW v \in Seq(Nodes), Return(Ok(v))
  PROVE  Outcome' = "open" /\ Reads' = Held(Stack)[Depth - 1] \o v
<1> DEFINE below == SubSeq(Stack, 1, Depth - 1)
<1>1. /\ Stack \in Seq(Frames) /\ Stack # <<>> /\ Depth = Len(Stack) /\ Depth \in Nat
      /\ Depth \in 1..Depth /\ Top.to = Depth - 1 /\ ChainSound(root, Stack) /\ receive = NoReply
      /\ Held(Stack)[Depth - 1] \in Seq(Nodes)
  BY RunnableStands, Standing DEF FrameSound
<1>2. /\ below \in Seq(Frames) /\ Len(below) = Depth - 1 /\ DOMAIN below = 1..(Depth - 1)
      /\ \A i \in 1..(Depth - 1) : below[i] = Stack[i]
  BY <1>1, FrontOf
<1>3. /\ slot' = <<>>
      /\ IF Top.to \in DOMAIN below
         THEN frames' = [below EXCEPT ![Top.to] = [@ EXCEPT !.inbox = Ok(v)]] /\ receive' = receive
         ELSE frames' = below /\ receive' = Ok(v)
  BY DEF Return
<1>4. Active'
  BY DEF Return, Polls, Proceeds, Active
<1> HIDE DEF below
<1>5. CASE Depth = 1
  <2>1. below = <<>> /\ frames' = below /\ receive' = Ok(v)
    BY <1>1, <1>2, <1>3, <1>5
  <2>2. Stack' = <<>> /\ Depth' = 0
    BY <1>2, <1>3, <2>1, StackNext
  <2>3. receive'.tag # "error" /\ receive'.leaves = v
    BY <2>1 DEF Ok
  <2>4. Outcome' = "open" /\ Reads' = Held(Stack')[Depth'] \o v
    BY <1>4, <2>2, <2>3, OpenNext
  <2>5. Held(Stack)[0] = <<>> /\ Held(<<>>)[0] = <<>>
    <3>1. <<>> \in Seq(Frames)
      OBVIOUS
    <3> QED BY <1>1, <3>1, HeldFacts
  <2>6. Depth - 1 = 0
    BY <1>5
  <2> QED BY <2>2, <2>4, <2>5, <2>6
<1>6. CASE Depth # 1
  <2> DEFINE j == Depth - 1
             b == Stack[j]
             g == [b EXCEPT !.inbox = Ok(v)]
  <2>1. /\ j \in Nat /\ j \in 1..j /\ j \in 1..Len(Stack) /\ j - 1 \in Nat /\ j - 1 <= j
        /\ j - 1 <= Len(Stack) /\ j \in 1..(Len(Stack) - 1)
    BY <1>1, <1>6
  <2>2. below[j] = b /\ b \in Frames /\ b.inbox = NoReply
    BY <1>1, <1>2, <2>1 DEF ChainSound, Awaits
  <2>3. Ok(v) \in Replies /\ Ok(v).leaves = v /\ Ok(v).tag = "ok"
    BY DEF Ok, Replies, Tags
  <2>4. g \in Frames /\ g.got = b.got /\ g.inbox = Ok(v) /\ b.got \in Seq(Nodes)
    BY <2>2, <2>3 DEF Frames
  <2>5. frames' = [below EXCEPT ![j] = g] /\ receive' = NoReply
    BY <1>1, <1>2, <1>3, <2>1, <2>2
  <2> HIDE DEF g, b
  <2>6. below # <<>>
    BY <1>2, <2>1
  <2>7. /\ frames' \in Seq(Frames) /\ Len(frames') = j /\ frames'[j] = g
        /\ Held(frames')[j] = Held(below)[j - 1] \o Holds(g)
    <3>1. Len(below) = j /\ frames' = [below EXCEPT ![Len(below)] = g]
      BY <1>2, <2>5
    <3>2. /\ [below EXCEPT ![Len(below)] = g] \in Seq(Frames)
          /\ Len([below EXCEPT ![Len(below)] = g]) = Len(below)
          /\ [below EXCEPT ![Len(below)] = g][Len(below)] = g
          /\ Held([below EXCEPT ![Len(below)] = g])[Len(below)]
                = Held(below)[Len(below) - 1] \o Holds(g)
      BY <1>2, <2>4, <2>6, HeldReplaced
    <3> HIDE DEF j
    <3> QED BY <3>1, <3>2
  <2>8. Stack' = frames' /\ Depth' = j /\ Top' = g
    BY <1>3, <2>7, StackNext DEF Top
  <2>9. receive'.tag # "error" /\ receive'.leaves = <<>>
    BY <2>5 DEF NoReply
  <2>10. Outcome' = "open" /\ Reads' = Held(frames')[j] \o <<>>
    BY <1>4, <2>3, <2>4, <2>8, <2>9, OpenNext
  <2>11. Held(below)[j - 1] = Held(Stack)[j - 1]
    <3>1. \A i \in 1..(j - 1) : below[i] = Stack[i]
      BY <1>1, <1>2
    <3> QED BY <1>1, <1>2, <2>1, <3>1, HeldCommon
  <2>12. Held(Stack)[j] = Held(Stack)[j - 1] \o b.got
    <3>1. Holds(b) = b.got
      BY <2>2, <2>4, HoldsGot
    <3> QED BY <1>1, <2>1, <3>1, HeldFacts DEF b
  <2>13. Holds(g) = b.got \o v
    BY <2>3, <2>4 DEF Holds
  <2>14. Held(Stack)[j - 1] \in Seq(Nodes)
    <3>1. j - 1 \in 0..Len(Stack)
      BY <2>1
    <3> QED BY <1>1, <3>1, HeldFacts
  <2>15. Held(frames')[j] = Held(Stack)[j] \o v
    <3> DEFINE a == Held(Stack)[j - 1]
               c == b.got
    <3>1. a \in Seq(Nodes) /\ c \in Seq(Nodes) /\ Held(Stack)[j] = a \o c
      BY <2>4, <2>12, <2>14
    <3>2. Held(frames')[j] = a \o (c \o v)
      BY <2>7, <2>11, <2>13
    <3> HIDE DEF a, c, j
    <3>3. (a \o c) \o v = a \o (c \o v)
      BY <3>1, Assoc
    <3> QED BY <3>1, <3>2, <3>3
  <2>16. Held(Stack)[j] \o v \in Seq(Nodes)
    BY <1>1, ConcatProperties
  <2>17. (Held(Stack)[j] \o v) \o <<>> = Held(Stack)[j] \o v
    BY <2>16, ConcatEmptySeq
  <2> QED BY <2>10, <2>15, <2>17
<1> QED BY <1>5, <1>6

(* A leaf that replies is the next leaf of the expression.                  *)
LEMMA LeafIsNext ==
  ASSUME NEW p \in Seq(Nodes), NEW n \in Nodes, NEW rest \in Seq(Nodes),
         NEW all \in Seq(Nodes), all = p \o (<<n>> \o rest)
  PROVE  Len(p) < Len(all) /\ all[Len(p) + 1] = n /\ p \o <<n>> = Append(p, n)
<1>1. <<n>> \in Seq(Nodes) /\ Len(<<n>>) = 1 /\ <<n>>[1] = n
  OBVIOUS
<1>2. /\ <<n>> \o rest \in Seq(Nodes) /\ Len(<<n>> \o rest) = 1 + Len(rest)
      /\ Len(rest) \in Nat /\ (<<n>> \o rest)[1] = n
  BY <1>1
<1> DEFINE q == <<n>> \o rest
<1> HIDE DEF q
<1>3. Len(p) \in Nat /\ Len(p \o q) = Len(p) + Len(q) /\ (p \o q)[Len(p) + 1] = q[1]
  BY <1>2 DEF q
<1>4. p \o <<n>> = Append(p, n)
  BY AppendIsConcat
<1> QED BY <1>2, <1>3, <1>4 DEF q

(* A frame that has its operands reads the next leaf or nothing.            *)
LEMMA SucceedReads == ChainInv /\ Succeed => InOrder!Read \/ UNCHANGED InOrder!vars
<1> SUFFICES ASSUME ChainInv, Succeed PROVE InOrder!Read \/ UNCHANGED InOrder!vars
  OBVIOUS
<1> DEFINE f == Resumed(Top)
           n == Top.node
           p == Held(Stack)[Depth - 1]
<1>1. Polls /\ Runnable(Top) /\ f.next = Len(Calls[f.node]) /\ Return(Ok(Value(f)))
  BY DEF Succeed
<1>2. /\ Stack \in Seq(Frames) /\ Depth = Len(Stack) /\ Depth \in Nat /\ Depth \in 1..Depth
      /\ root \in Roots /\ Top = Stack[Depth] /\ Top \in Frames /\ FrameSound(root, Top, Depth)
      /\ ChainSound(root, Stack) /\ Outcome = "open"
      /\ p \in Seq(Nodes) /\ Holds(Top) \in Seq(Nodes) /\ Reads = p \o Holds(Top)
  BY <1>1, RunnableStands, Standing
<1>3. /\ f \in Frames /\ f.node = n /\ f.got = Holds(Top) /\ f.got = Partial[n][f.next]
      /\ n \in Nodes
  <2>1. f \in Frames /\ FrameSound(root, f, Depth) /\ f.node = n
    BY <1>1, <1>2, ResumedSound
  <2>2. f.got = Holds(Top)
    BY <1>1, <1>2, ResumedHolds
  <2> HIDE DEF f
  <2>3. f.got = Partial[n][f.next]
    BY <2>1 DEF FrameSound
  <2>4. n \in Nodes
    BY <1>2 DEF Frames
  <2> QED BY <2>1, <2>2, <2>3, <2>4
<1>4. root' = root /\ ChainInv'
  BY <1>1, SucceedChain DEF Return
<1> HIDE DEF f, p
<1>5. CASE IsLeaf(n)
  <2>1. Value(f) = <<n>> /\ <<n>> \in Seq(Nodes) /\ Leaves(n) = <<n>>
    BY <1>3, <1>5 DEF Value, Leaves
  <2>2. f.next = 0 /\ Holds(Top) = <<>>
    <3>1. Len(Calls[n]) = 0
      BY <1>5 DEF IsLeaf
    <3> QED BY <1>1, <1>3, <3>1, PartialAssumption
  <2>3. Reads = p
    BY <1>2, <2>2, ConcatEmptySeq
  <2>4. Outcome' = "open" /\ Reads' = p \o <<n>>
    BY <1>1, <1>4, <2>1, ReplyMoves DEF p
  <2>5. PICK rest \in Seq(Nodes) : Leaves(root) = p \o (<<n>> \o rest)
    BY <1>2, <2>1, StackBegins DEF p
  <2>6. Leaves(root) \in Seq(Nodes)
    BY <1>2, RootProperties, LeavesType
  <2>7. Len(p) < Len(Leaves(root)) /\ Leaves(root)[Len(p) + 1] = n /\ p \o <<n>> = Append(p, n)
    BY <1>2, <1>3, <2>5, <2>6, LeafIsNext
  <2>8. InOrder!Read
    BY <1>2, <1>4, <2>3, <2>4, <2>7 DEF InOrder!Read
  <2> QED BY <2>8
<1>6. CASE ~IsLeaf(n)
  <2>1. Value(f) = Holds(Top)
    BY <1>3, <1>6 DEF Value
  <2>2. Outcome' = "open" /\ Reads' = p \o Holds(Top)
    BY <1>1, <1>2, <1>4, <2>1, ReplyMoves DEF p
  <2> QED BY <1>2, <1>4, <2>2 DEF InOrder!vars
<1> QED BY <1>5, <1>6

--------------------------------------------------------------------------------
(* What has not ended with a value is abandoned, and holds nothing more.    *)
LEMMA Abandons ==
  ASSUME Outcome \in {"open", "abandoned"}, Outcome' = "abandoned", root' = root
  PROVE  InOrder!Abandon \/ UNCHANGED InOrder!vars
<1>1. Reads' = <<>>
  BY DEF Reads
<1>2. CASE Outcome = "open"
  BY <1>1, <1>2 DEF InOrder!Abandon
<1>3. CASE Outcome = "abandoned"
  <2>1. Reads = <<>>
    BY <1>3 DEF Reads
  <2> QED BY <1>1, <1>3, <2>1 DEF InOrder!vars
<1> QED BY <1>2, <1>3

(* An evaluation in progress has not ended with a value.                    *)
LEMMA InProgress ==
  ASSUME ChainInv, Active
  PROVE  result = NoReply /\ Outcome \in {"open", "abandoned"}
<1>1. result = NoReply /\ result.tag # "ok"
  BY DEF ChainInv, TopReady, NoReply
<1> QED BY <1>1 DEF Outcome

(* A frame that fails, or whose operand has, ends it.                       *)
LEMMA ErrorAbandons ==
  ASSUME ChainInv, Polls, NEW r \in Replies, r.tag = "error", Return(r)
  PROVE  InOrder!Abandon \/ UNCHANGED InOrder!vars
<1> DEFINE below == SubSeq(Stack, 1, Depth - 1)
<1>1. /\ Stack \in Seq(Frames) /\ Stack # <<>> /\ Depth = Len(Stack) /\ Depth \in Nat
      /\ Depth \in 1..Depth /\ Top.to = Depth - 1
  BY StackFacts DEF Polls, FrameSound, Depth
<1>2. /\ below \in Seq(Frames) /\ Len(below) = Depth - 1 /\ DOMAIN below = 1..(Depth - 1)
  BY <1>1, FrontOf
<1>3. /\ slot' = <<>> /\ root' = root /\ result' = result
      /\ IF Top.to \in DOMAIN below
         THEN frames' = [below EXCEPT ![Top.to] = [@ EXCEPT !.inbox = r]]
         ELSE receive' = r
  BY DEF Return
<1>4. result = NoReply /\ Outcome \in {"open", "abandoned"}
  BY InProgress DEF Polls, Proceeds, Active
<1> HIDE DEF below
<1>5. Failing'
  <2>1. CASE Top.to \in DOMAIN below
    <3> DEFINE j == Depth - 1
               g == [below[j] EXCEPT !.inbox = r]
    <3>1. j \in 1..Len(below) /\ Len(below) = j /\ below[j] \in Frames /\ below # <<>>
      BY <1>1, <1>2, <2>1
    <3>2. g \in Frames /\ g.inbox = r
      BY <3>1 DEF Frames
    <3>3. frames' = [below EXCEPT ![Len(below)] = g]
      BY <1>1, <1>3, <2>1, <3>1
    <3> HIDE DEF g
    <3>4. frames' \in Seq(Frames) /\ Len(frames') = j /\ frames'[j] = g
      BY <1>2, <3>1, <3>2, <3>3, HeldReplaced
    <3>5. Stack' = frames' /\ Depth' = j /\ j \in 1..j
      BY <1>3, <3>1, <3>4, StackNext
    <3>6. Stack'[j].inbox.tag = "error"
      BY <3>2, <3>4, <3>5
    <3> QED BY <3>5, <3>6 DEF Failing
  <2>2. CASE Top.to \notin DOMAIN below
    BY <1>3, <2>2 DEF Failing
  <2> QED BY <2>1, <2>2
<1>6. Outcome' = "abandoned"
  <2>1. result'.tag # "ok"
    BY <1>3, <1>4 DEF NoReply
  <2> QED BY <1>5, <2>1 DEF Outcome
<1> QED BY <1>3, <1>4, <1>6, Abandons

(* So do the frame limit, the memory and a caller that lets go.             *)
LEMMA EndAbandons ==
  ASSUME ChainInv, Active, phase' = "draining", result'.tag # "ok", root' = root
  PROVE  InOrder!Abandon \/ UNCHANGED InOrder!vars
<1>1. Outcome' = "abandoned"
  BY DEF Outcome
<1> QED BY <1>1, InProgress, Abandons

(* What is delivered is the whole expression, or an error.                  *)
LEMMA DeliverCompletes ==
  ChainInv /\ Deliver => InOrder!Complete \/ InOrder!Abandon \/ UNCHANGED InOrder!vars
<1> SUFFICES ASSUME ChainInv, Deliver
             PROVE  InOrder!Complete \/ InOrder!Abandon \/ UNCHANGED InOrder!vars
  OBVIOUS
<1>1. Active /\ Stack = <<>> /\ phase' = "draining" /\ root' = root
  BY DEF Deliver, Proceeds, Active
<1>2. receive # NoReply /\ Sent(receive)
  BY <1>1 DEF ChainInv, TopReady, RootReplies
<1>3. result' = receive
  BY <1>2 DEF Deliver
<1>4. CASE receive.tag = "ok"
  <2>1. receive.leaves = Leaves(root)
    BY <1>2, <1>4 DEF Sent
  <2>2. Outcome = "open" /\ Reads = Held(Stack)[Depth] \o receive.leaves
    BY <1>1, <1>4, OpenNow
  <2>3. Depth = 0 /\ Held(Stack)[Depth] = <<>>
    <3>1. Stack \in Seq(Frames) /\ Depth = 0
      BY <1>1, StackFacts DEF Depth
    <3> QED BY <3>1, HeldFacts
  <2>4. Leaves(root) \in Seq(Nodes)
    BY StackFacts, RootProperties, LeavesType
  <2>5. Reads = Leaves(root)
    BY <2>1, <2>2, <2>3, <2>4, ConcatEmptySeq
  <2>6. Outcome' = "ok"
    BY <1>3, <1>4 DEF Outcome
  <2>7. Reads' = Leaves(root)
    BY <1>3, <2>1, <2>6 DEF Reads
  <2> QED BY <1>1, <2>2, <2>5, <2>6, <2>7 DEF InOrder!Complete
<1>5. CASE receive.tag # "ok"
  BY <1>1, <1>3, <1>5, EndAbandons
<1> QED BY <1>4, <1>5

(* What is over stays as it is.                                             *)
LEMMA DropStutters == Drop => UNCHANGED InOrder!vars
<1> SUFFICES ASSUME Drop PROVE UNCHANGED InOrder!vars
  OBVIOUS
<1>1. /\ phase \in {"draining", "gone"} /\ phase' \in {"draining", "gone"}
      /\ result' = result /\ root' = root
  BY DEF Drop, ReleaseSlot, ReleaseFrame, Released
<1>2. Outcome' = Outcome /\ Outcome \in {"ok", "abandoned"}
  BY <1>1 DEF Outcome
<1>3. Reads' = Reads
  BY <1>1, <1>2 DEF Reads
<1> QED BY <1>1, <1>2, <1>3 DEF InOrder!vars

(* Polls that find nothing to do change nothing.                            *)
LEMMA WaitingStutters ==
  (Poll \/ Yield \/ StayBlocked \/ UNCHANGED vars) => UNCHANGED InOrder!vars
<1> SUFFICES ASSUME Poll \/ Yield \/ StayBlocked \/ UNCHANGED vars PROVE UNCHANGED InOrder!vars
  OBVIOUS
<1>1. /\ frames' = frames /\ slot' = slot /\ receive' = receive /\ result' = result /\ root' = root
      /\ phase' \in {"draining", "gone"} <=> phase \in {"draining", "gone"}
  BY DEF Poll, Yield, StayBlocked, Polls, Proceeds, vars
<1>2. Stack' = Stack /\ Depth' = Depth
  BY <1>1 DEF Stack, Depth
<1>3. Outcome' = Outcome
  BY <1>1, <1>2 DEF Outcome, Failing
<1>4. Reads' = Reads
  BY <1>1, <1>2, <1>3 DEF Reads
<1> QED BY <1>1, <1>3, <1>4 DEF InOrder!vars

(* Initially nothing is read.                                               *)
LEMMA InitImplements == Init => InOrder!Init
<1> SUFFICES ASSUME Init PROVE InOrder!Init
  OBVIOUS
<1> DEFINE f == NewFrame(root, 0)
<1>1. /\ ChainInv /\ Active /\ receive = NoReply /\ root \in Roots
      /\ frames = <<f>> /\ slot = <<>>
  BY InitChain DEF Init, Active
<1>2. Stack = frames /\ Stack # <<>> /\ Len(Stack) = 1 /\ Stack[1] = f
  BY <1>1 DEF Stack
<1>3. f.got = <<>> /\ f.inbox = NoReply
  BY DEF NewFrame
<1>4. Depth = 1 /\ Top = f
  BY <1>2 DEF Depth, Top
<1> HIDE DEF f
<1>5. Top.inbox.tag # "error"
  BY <1>3, <1>4 DEF NoReply
<1>6. /\ Outcome = "open" /\ Reads = Held(Stack)[Depth - 1] \o Holds(Top)
      /\ Top \in Frames /\ Stack \in Seq(Frames)
  BY <1>1, <1>2, <1>5, Standing
<1>7. Depth - 1 = 0 /\ Held(Stack)[0] = <<>>
  <2>1. Depth - 1 = 0
    BY <1>4
  <2>2. Held(Stack)[0] = <<>>
    BY <1>6, HeldFacts
  <2> QED BY <2>1, <2>2
<1>8. <<>> \in Seq(Nodes)
  OBVIOUS
<1>9. Holds(Top) = <<>>
  BY <1>3, <1>4, <1>6, <1>8, HoldsGot
<1>10. Reads = <<>>
  BY <1>6, <1>7, <1>8, <1>9, ConcatEmptySeq
<1> QED BY <1>1, <1>6, <1>10 DEF InOrder!Init

(* Every step of the driver is a step of the evaluation, or none.           *)
LEMMA NextImplements == ChainInv /\ [Next]_vars => [InOrder!Next]_InOrder!vars
<1> SUFFICES ASSUME ChainInv, [Next]_vars PROVE [InOrder!Next]_InOrder!vars
  OBVIOUS
<1>1. CASE Succeed
  BY <1>1, SucceedReads DEF InOrder!Next
<1>2. CASE Fail
  <2>1. Polls /\ Return(Failed(Top.node)) /\ Top \in Frames
    BY <1>2, StackFacts DEF Fail, Polls
  <2>2. Failed(Top.node) \in Replies /\ Failed(Top.node).tag = "error"
    <3>1. Top.node \in Nodes
      BY <2>1 DEF Frames
    <3> QED BY <3>1 DEF Failed, Replies, Tags
  <2> QED BY <2>1, <2>2, ErrorAbandons DEF InOrder!Next
<1>3. CASE Propagate
  <2>1. Polls /\ Return(Top.inbox) /\ Top.inbox.tag = "error" /\ Top \in Frames
    BY <1>3, StackFacts DEF Propagate, Polls
  <2>2. Top.inbox \in Replies
    BY <2>1 DEF Frames
  <2> QED BY <2>1, <2>2, ErrorAbandons DEF InOrder!Next
<1>4. CASE RefuseFrame \/ RefuseMemory
  <2>1. /\ Active /\ phase' = "draining" /\ root' = root
        /\ result' \in {FrameLimit, NoMemory}
    BY <1>4 DEF RefuseFrame, RefuseMemory, Proceeds, Active
  <2>2. result'.tag # "ok"
    BY <2>1 DEF FrameLimit, NoMemory
  <2> QED BY <2>1, <2>2, EndAbandons DEF InOrder!Next
<1>5. CASE Cancel
  <2>1. Active /\ phase' = "draining" /\ root' = root /\ result' = result
    BY <1>5 DEF Cancel, Active
  <2>2. result'.tag # "ok"
    BY <2>1, InProgress DEF NoReply
  <2> QED BY <2>1, <2>2, EndAbandons DEF InOrder!Next
<1>6. CASE Deliver
  BY <1>6, DeliverCompletes DEF InOrder!Next
<1>7. CASE AwaitIo \/ Request \/ CompleteIo \/ Drop \/ Poll \/ Yield \/ StayBlocked \/ UNCHANGED vars
  BY <1>7, AwaitIoStutters, RequestStutters, CompleteIoStutters, DropStutters, WaitingStutters
<1> QED BY <1>1, <1>2, <1>3, <1>4, <1>5, <1>6, <1>7 DEF Next, Iterate

(* Whatever the polls, the I/O, the failures and the cancellations are, an  *)
(* evaluation reads the leaves of its expression one at a time in operand   *)
(* order, nothing after a failure, and returns a value only when it has     *)
(* read them all.                                                           *)
THEOREM Implements == Spec => EvaluatesInOrder
<1>1. InOrder!Init /\ [][InOrder!Next]_InOrder!vars => InOrder!Spec
  BY DEF InOrder!Spec
<1> QED BY <1>1, InitImplements, NextImplements, Chain, PTL DEF Spec, EvaluatesInOrder
================================================================================
