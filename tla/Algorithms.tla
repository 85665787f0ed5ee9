----------------------------- MODULE Algorithms -----------------------------
(* Sorted sequences and loops over sequences.                              *)
EXTENDS Integers, Sequences, FiniteSets, SequencesExt

\* A sequence sorted by a key, elements of equal keys in their old order.
StableSort(seq, Less(_, _)) ==
  LET before(i, j) == Less(seq[i], seq[j]) \/ (~Less(seq[j], seq[i]) /\ i < j)
      rank == [j \in DOMAIN seq |-> 1 + Cardinality({i \in DOMAIN seq : before(i, j)})]
  IN [k \in DOMAIN seq |-> seq[CHOOSE j \in DOMAIN seq : rank[j] = k]]

\* The elements of a set in order.
Ordered(S, Less(_, _)) ==
  [k \in 1..Cardinality(S) |-> CHOOSE x \in S : Cardinality({y \in S : Less(y, x)}) = k - 1]

\* A value itself; the comparison makes TLC evaluate it once.
Value(v) == CHOOSE w \in {v} : w = v

\* A loop over a sequence: FoldLeft, with each step evaluated before the next.
InTurn(Step(_, _), start, seq) ==
  LET after[i \in 0..Len(seq)] ==
        IF i = 0 THEN start
        ELSE LET before == after[i - 1]
             IN IF before = before THEN Step(before, seq[i]) ELSE start
  IN after[Len(seq)]

-----------------------------------------------------------------------------
(***************************************************************************)
(* util::TarjanSCC: strongly connected components by a depth-first search  *)
(* whose recursion is an explicit stack of frames. A frame is popped once  *)
(* before its node's edges are followed and once after.                    *)
(*                                                                         *)
(* A graph is a function from 0..n-1 to the sequence of a node's targets.  *)
(***************************************************************************)

LOCAL NotIndexed == 1000000

TarjanBegins(graph) ==
  [node |-> 0, recursion_stack |-> << >>, tarjan_stack |-> << >>, index |-> 0,
   indices |-> [v \in DOMAIN graph |-> NotIndexed],
   low_link |-> [v \in DOMAIN graph |-> NotIndexed],
   before |-> [v \in DOMAIN graph |-> TRUE],
   component |-> [v \in DOMAIN graph |-> NotIndexed], sizes |-> << >>]

LOCAL Least(a, b) == IF a < b THEN a ELSE b

\* The first visit of a node: its unvisited targets are pushed, those still on
\* the stack lower its low link.
EnterNode(graph, s, frame) ==
  LET v == frame.v
      onStack == ToSet(s.tarjan_stack)
      fresh == SelectSeq(graph[v], LAMBDA w : w # v /\ s.indices[w] = NotIndexed)
      back == {s.indices[w] : w \in ToSet(graph[v]) \cap onStack}
  IN [s EXCEPT !.recursion_stack = @ \o <<frame>> \o [i \in DOMAIN fresh |-> [v |-> fresh[i], parent |-> v]],
               !.before[v] = FALSE,
               !.indices[v] = s.index,
               !.low_link[v] = CHOOSE l \in back \cup {s.index} : \A k \in back \cup {s.index} : l <= k,
               !.tarjan_stack = Append(@, v),
               !.index = @ + 1]

\* The visit after the recursion: the low link is passed to the parent, and a
\* node that is its own low link closes a component.
LeaveNode(s, frame) ==
  LET v == frame.v
      from == CHOOSE i \in DOMAIN s.tarjan_stack : s.tarjan_stack[i] = v
      members == ToSet(SubSeq(s.tarjan_stack, from, Len(s.tarjan_stack)))
      passed == [s EXCEPT !.before[v] = TRUE,
                          !.low_link[frame.parent] = Least(@, s.low_link[v])]
  IN IF passed.low_link[v] # s.indices[v] THEN passed
     ELSE [passed EXCEPT !.tarjan_stack = SubSeq(@, 1, from - 1),
                         !.component = [w \in DOMAIN @ |-> IF w \in members THEN Len(s.sizes) ELSE @[w]],
                         !.sizes = Append(@, Len(s.tarjan_stack) - from + 1)]

TarjanDone(graph, s) == s.recursion_stack = << >> /\ s.node \notin DOMAIN graph

\* One turn of the loops of Run.
TarjanStep(graph, s) ==
  IF s.recursion_stack = << >>
  THEN [s EXCEPT !.node = @ + 1,
                 !.recursion_stack = IF s.component[s.node] = NotIndexed
                                     THEN <<[v |-> s.node, parent |-> s.node]>> ELSE << >>]
  ELSE LET frame == Last(s.recursion_stack)
           popped == [s EXCEPT !.recursion_stack = Front(@)]
       IN IF ~s.before[frame.v] THEN LeaveNode(popped, frame)
          ELSE IF s.indices[frame.v] # NotIndexed THEN popped
          ELSE EnterNode(graph, popped, frame)

RECURSIVE TarjanRuns(_, _)
TarjanRuns(graph, s) == IF TarjanDone(graph, s) THEN s ELSE TarjanRuns(graph, TarjanStep(graph, s))

\* The component of every node and the size of every component.
RunTarjan(graph) == LET s == TarjanRuns(graph, TarjanBegins(graph)) IN [component |-> s.component, sizes |-> s.sizes]
=============================================================================
