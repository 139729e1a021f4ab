----------------------------- MODULE SharedNodes -----------------------------
(***************************************************************************)
(* Expressions shared between threads.  Handles are std::shared_ptr to     *)
(* immutable nodes (node.hpp:15), parents hold their operands the same way *)
(* (node.hpp:21-24), and a rendering walks the nodes through plain         *)
(* references (node.cpp:61) while other threads copy, build upon and drop  *)
(* handles of the same ones: the placeholders _1, _2, ... of               *)
(* placeholders.cpp are constants that every thread uses.  Building is     *)
(* that of ExprNodes; rendering and destruction are the small steps of the *)
(* code.  nodes keeps what was built, also after it is gone.               *)
(***************************************************************************)
EXTENDS ExprNodes

CONSTANTS
  Threads,       \* the client's threads
  Statics,       \* holder of the namespace-scope constants, no thread
  Placeholders,  \* the texts of these constants
  Contexts       \* precedences given to Extract; kExtract is ToString

ASSUME SharingAssumption ==
  /\ IsFiniteSet(Threads) /\ Statics \notin Threads
  /\ Placeholders \in Seq(Seq(Tokens))
  /\ Contexts \subseteq Precedences

VARIABLES
  handles,   \* the nodes each holder has an Expr or Condition for
  owners,    \* use count of every node
  alive,     \* the nodes not yet destroyed
  releases,  \* per thread, the references it is letting go of, next first; 0 is
             \* a part without one
  callStack, \* per thread, the calls of AppendPart it is in, innermost last
  out        \* per thread, the text written so far

sharing == <<handles, owners, alive, releases, callStack, out>>
sharedVars == <<vars, sharing>>

Holders == Threads \cup {Statics}

\* A call that writes the parts of a node from the next one on, and then the
\* bracket it owes.
Begun(node, bracketed) == [node |-> node, next |-> 1, bracketed |-> bracketed]

Idle(t) == callStack[t] = <<>> /\ releases[t] = <<>>

\* The handle each part of a node holds; a fragment holds none, which is 0.
References(node) == [k \in DOMAIN nodes[node].parts |-> nodes[node].parts[k].node]

Occurrences(s, e) == Cardinality({k \in DOMAIN s : s[k] = e})

SharedInit ==
  /\ Init
  /\ handles = [h \in Holders |-> {}]
  /\ owners = <<>>
  /\ alive = {}
  /\ releases = [t \in Threads |-> <<>>]
  /\ callStack = [t \in Threads |-> <<>>]
  /\ out = [t \in Threads |-> <<>>]

-----------------------------------------------------------------------------
\* Mutant: the parts borrow their operands.
OwnNewBorrowing(holder) ==
  /\ owners' = Append(owners, 1)
  /\ handles' = [handles EXCEPT ![holder] = @ \cup {Len(nodes')}]
  /\ alive' = alive \cup {Len(nodes')}

\* The client has the only handle of what a method returns; the parts have
\* copied the handles of the operands.
OwnNew(holder) ==
  LET new == Len(nodes')
      operands == [k \in DOMAIN nodes'[new].parts |-> nodes'[new].parts[k].node]
  IN  /\ owners' = Append([i \in DOMAIN owners |-> owners[i] + Occurrences(operands, i)], 1)
      /\ handles' = [handles EXCEPT ![holder] = @ \cup {new}]
      /\ alive' = alive \cup {new}

\* Static initialisation: the placeholders, one after the other, before any
\* thread runs.
InitPlaceholder ==
  /\ Len(nodes) < Len(Placeholders)
  /\ FromRaw([text |-> Placeholders[Len(nodes) + 1], precedence |-> kSymbol])
  /\ OwnNew(Statics)
  /\ UNCHANGED <<releases, callStack, out>>

Ready(t) == Idle(t) /\ Len(nodes) >= Len(Placeholders)

\* The nodes a thread can name: its own and the constants.
Reach(t) == handles[t] \cup handles[Statics]

\* Any method of ExprNodes on nodes the thread can name.
BuildShared(t) ==
  /\ Ready(t)
  /\ Next
  /\ Len(nodes') > Len(nodes)
  /\ \A k \in DOMAIN Last(nodes').parts : Last(nodes').parts[k].node \in Reach(t) \cup {0}
  /\ OwnNew(t)
  /\ UNCHANGED <<releases, callStack, out>>

\* A copy of a handle, for the thread itself or for another one.
CopyHandle(t, u, i) ==
  /\ Ready(t)
  /\ i \in Reach(t) \ handles[u]
  /\ handles' = [handles EXCEPT ![u] = @ \cup {i}]
  /\ owners' = [owners EXCEPT ![i] = @ + 1]
  /\ UNCHANGED <<vars, alive, releases, callStack, out>>

\* The destructor of a handle.
DropHandle(t, i) ==
  /\ Ready(t)
  /\ i \in handles[t]
  /\ handles' = [handles EXCEPT ![t] = @ \ {i}]
  /\ releases' = [releases EXCEPT ![t] = <<i>>]
  /\ UNCHANGED <<vars, owners, alive, callStack, out>>

\* Mutant: a destroyed node keeps its operands.
ReleaseShallow(t) ==
  /\ releases[t] # <<>>
  /\ LET i == Head(releases[t])
     IN  /\ owners' = [owners EXCEPT ![i] = @ - 1]
         /\ alive' = IF owners[i] = 1 THEN alive \ {i} ELSE alive
         /\ releases' = [releases EXCEPT ![t] = Tail(@)]
  /\ UNCHANGED <<vars, handles, callStack, out>>

\* Mutant: the count is let go of once nobody else has one.
ReleaseWhenLast(t) ==
  releases[t] # <<>> /\ owners[Head(releases[t])] = 1 /\ ReleaseShallow(t)

\* A part without a handle is destroyed.
ReleaseFragment(t) ==
  /\ releases[t] # <<>>
  /\ Head(releases[t]) = 0
  /\ releases' = [releases EXCEPT ![t] = Tail(@)]
  /\ UNCHANGED <<vars, handles, owners, alive, callStack, out>>

\* One reference less; the last one destroys the node, and its parts let go of
\* theirs.
Release(t) ==
  /\ releases[t] # <<>>
  /\ Head(releases[t]) # 0
  /\ LET i    == Head(releases[t])
         last == owners[i] = 1
     IN  /\ owners' = [owners EXCEPT ![i] = @ - 1]
         /\ alive' = IF last THEN alive \ {i} ELSE alive
         /\ releases' = [releases EXCEPT ![t] =
                           (IF last THEN References(i) ELSE <<>>) \o Tail(@)]
  /\ UNCHANGED <<vars, handles, callStack, out>>

-----------------------------------------------------------------------------
\* Render and RenderWithContext: the call borrows the node from a handle.
StartRendering(t, i, context) ==
  /\ Ready(t)
  /\ i \in Reach(t)
  /\ LET bracketed == NeedsParens(nodes[i].precedence, context)
     IN  /\ callStack' = [callStack EXCEPT ![t] = <<Begun(i, bracketed)>>]
         /\ out' = [out EXCEPT ![t] = IF bracketed THEN <<"(">> ELSE <<>>]
  /\ UNCHANGED <<vars, handles, owners, alive, releases>>

Top(t)       == Last(callStack[t])
Remaining(t) == Top(t).next <= Len(nodes[Top(t).node].parts)
NextPart(t)  == nodes[Top(t).node].parts[Top(t).next]
Advanced(t)  == [callStack[t] EXCEPT ![Len(callStack[t])].next = @ + 1]

\* AppendPart of a string.
AppendFragment(t) ==
  /\ callStack[t] # <<>>
  /\ Remaining(t)
  /\ NextPart(t).node = 0
  /\ out' = [out EXCEPT ![t] = @ \o NextPart(t).text]
  /\ callStack' = [callStack EXCEPT ![t] = Advanced(t)]
  /\ UNCHANGED <<vars, handles, owners, alive, releases>>

\* Mutant: a child's bracket is opened and not closed.
EnterChildUnclosed(t) ==
  /\ callStack[t] # <<>>
  /\ Remaining(t)
  /\ NextPart(t).node # 0
  /\ LET child == NextPart(t).node
         bracketed == NeedsParens(nodes[child].precedence, NextPart(t).context)
     IN  /\ callStack' = [callStack EXCEPT ![t] = Append(Advanced(t), Begun(child, FALSE))]
         /\ out' = [out EXCEPT ![t] = IF bracketed THEN @ \o <<"(">> ELSE @]
  /\ UNCHANGED <<vars, handles, owners, alive, releases>>

\* AppendPart of a ChildRef: a bracket if needed, and the parts of the child.
EnterChild(t) ==
  /\ callStack[t] # <<>>
  /\ Remaining(t)
  /\ NextPart(t).node # 0
  /\ LET child == NextPart(t).node
         bracketed == NeedsParens(nodes[child].precedence, NextPart(t).context)
     IN  /\ callStack' = [callStack EXCEPT ![t] = Append(Advanced(t), Begun(child, bracketed))]
         /\ out' = [out EXCEPT ![t] = IF bracketed THEN @ \o <<"(">> ELSE @]
  /\ UNCHANGED <<vars, handles, owners, alive, releases>>

Closing(t) == IF Top(t).bracketed THEN <<")">> ELSE <<>>

LeaveNode(t) ==
  /\ callStack[t] # <<>>
  /\ ~Remaining(t)
  /\ callStack' = [callStack EXCEPT ![t] = Front(@)]
  /\ out' = [out EXCEPT ![t] = IF Len(callStack[t]) = 1 THEN <<>> ELSE @ \o Closing(t)]
  /\ UNCHANGED <<vars, handles, owners, alive, releases>>

-----------------------------------------------------------------------------
BeginCall(t) ==
  \/ BuildShared(t)
  \/ \E u \in Threads, i \in Exprs : CopyHandle(t, u, i)
  \/ \E i \in Exprs : DropHandle(t, i)
  \/ \E i \in Exprs, context \in Contexts : StartRendering(t, i, context)

Continue(t) == ReleaseFragment(t) \/ Release(t) \/ AppendFragment(t) \/ EnterChild(t) \/ LeaveNode(t)

SharedNext == InitPlaceholder \/ \E t \in Threads : BeginCall(t) \/ Continue(t)

\* A thread that is inside a call is scheduled again; none of them waits.
SharedSpec ==
  SharedInit /\ [][SharedNext]_sharedVars /\ \A t \in Threads : WF_sharedVars(Continue(t))

-----------------------------------------------------------------------------
\* Nothing in use is gone: the handles, the parts of living nodes, the
\* references still to be let go of, and the plain references of renderings,
\* which own nothing (node.cpp:61), all name living nodes.
NothingDangles ==
  /\ \A h \in Holders : handles[h] \subseteq alive
  /\ \A i \in alive : Range(References(i)) \subseteq alive \cup {0}
  /\ \A t \in Threads : /\ Range(releases[t]) \subseteq alive \cup {0}
                        /\ \A k \in DOMAIN callStack[t] : callStack[t][k].node \in alive

\* Whatever the other threads do meanwhile, a rendering writes the text its
\* node has, from the first token to the last (node.cpp:61-80).
WritesItsText ==
  \A t \in Threads : callStack[t] # <<>> =>
    LET root  == callStack[t][1]
        bare  == Render(nodes)[root.node]
        whole == IF root.bracketed THEN <<"(">> \o bare \o <<")">> ELSE bare
    IN  /\ IsPrefix(out[t], whole)
        /\ Len(callStack[t]) = 1 /\ ~Remaining(t) => out[t] \o Closing(t) = whole

\* No call of this layer waits for another thread or goes on for ever, however
\* many levels the tree has (node.cpp:36 calls itself) and whoever shares it.
CallsEnd == \A t \in Threads : ~Idle(t) ~> Idle(t)

\* A node some handle leads to, through the parts of others.
Held ==
  LET held[i \in DOMAIN nodes] ==
        \/ \E h \in Holders : i \in handles[h]
        \/ \E j \in i+1 .. Len(nodes) : i \in Range(References(j)) /\ held[j]
  IN  held

\* A node no handle leads to is destroyed in the end, once: parents own their
\* operands and never the other way round (node.hpp:21-24).
NothingLeaks ==
  \A i \in 1..MaxNodes :
    i \in alive /\ ~Held[i] ~> i \in DOMAIN nodes /\ i \notin alive
=============================================================================
