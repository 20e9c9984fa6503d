------------------------------ MODULE WalkTree ------------------------------
(***************************************************************************)
(* wait.Walk: a depth-first walk over strategies, nested by                *)
(* MultiStrategies, whose visit function may have the strategy that it     *)
(* visits removed, from the very list that the walk is in.  Callers walk   *)
(* over the strategies of a container before it is started.                *)
(***************************************************************************)
EXTENDS WaitStrategies

Nil == [id |-> <<0>>, kids |-> <<>>]

RECURSIVE Nodes(_, _)

\* A strategy as the walk sees it, each node named by its position: only a MultiStrategy has
\* others inside.
Nodes(s, id) ==
  IF s.kind = "nil" THEN Nil
  ELSE [id |-> id, kids |-> [i \in DOMAIN s.list |-> Nodes(s.list[i], Append(id, i))]]

\* What a visit returns: no error, or an error that joins these.
Verdicts == {{}, {"stop"}, {"remove"}, {"stop", "remove"}, {"other"}, {"remove", "other"}}

\* Faulty: compares the error instead of looking into it.
RemovesExactly(err) == err = {"remove"}

Removes(err) == "remove" \in err

RECURSIVE WalkNode(_, _), WalkKids(_, _, _, _, _)

\* The loop over the strategies of a MultiStrategy: it runs as often as there were strategies
\* when it began, "left" times more, at index i.
WalkKids(kids, i, left, verdict, visited) ==
  IF left = 0 THEN [kids |-> kids, err |-> {}, visited |-> visited]
  ELSE LET kid == WalkNode(kids[i], verdict)
           seen == visited \o kid.visited
           rest == IF Removes(kid.err) THEN RemoveAt(kids, i)
                   ELSE [kids EXCEPT ![i] = kid.node] IN
       CASE kid.err = {} -> WalkKids(rest, i + 1, left - 1, verdict, seen)
         [] Removes(kid.err) /\ "stop" \notin kid.err
              -> WalkKids(rest, i, left - 1, verdict, seen)
         [] Removes(kid.err) /\ "stop" \in kid.err
              -> [kids |-> rest, err |-> {"stop"}, visited |-> seen]
         [] OTHER -> [kids |-> rest, err |-> kid.err, visited |-> seen]

\* What becomes of the node, the error that is passed up, and what was visited, in order.
WalkNode(node, verdict) ==
  IF node = Nil THEN [node |-> Nil, err |-> {}, visited |-> <<>>]
  ELSE LET err == verdict[node.id] IN
       IF err # {} THEN [node |-> IF Removes(err) THEN Nil ELSE node, err |-> err,
                         visited |-> <<node.id>>]
       ELSE LET kids == WalkKids(node.kids, 1, Len(node.kids), verdict, <<node.id>>) IN
            [node |-> [node EXCEPT !.kids = kids.kids], err |-> kids.err,
             visited |-> kids.visited]

\* Neither of the two errors with a meaning reaches the caller, nor what is joined with them.
Walk(root, verdict) ==
  LET walked == WalkNode(root, verdict) IN
  IF Removes(walked.err) \/ "stop" \in walked.err THEN [walked EXCEPT !.err = {}] ELSE walked

-----------------------------------------------------------------------------
(* The reference: which nodes are visited and which remain.                *)

RECURSIVE Below(_, _)

\* The nodes of a tree in preorder, each with the set of those above it.
Below(node, above) ==
  IF node = Nil THEN <<>>
  ELSE <<[id |-> node.id, above |-> above]>> \o
       FlattenSeq([i \in DOMAIN node.kids |-> Below(node.kids[i], above \cup {node.id})])
Preorder(node) == Below(node, {})

Ids(nodes) == [i \in DOMAIN nodes |-> nodes[i].id]
Halts(err) == err # {} /\ ("remove" \notin err \/ "stop" \in err)

\* A node is visited unless a node above it was turned down, or one before it ended the walk.
ShouldVisit(nodes, verdict) ==
  LET open == SelectSeq(nodes, LAMBDA n : \A id \in n.above : verdict[id] = {})
      last == {i \in DOMAIN open : Halts(verdict[open[i].id])} IN
  IF last = {} THEN open
  ELSE SubSeq(open, 1, CHOOSE i \in last : \A j \in last : i <= j)

\* What is left are the nodes that are not among the visited ones to be removed, nor below
\* one of them.
ShouldRemain(nodes, verdict) ==
  LET gone == {id \in ToSet(Ids(ShouldVisit(nodes, verdict))) : "remove" \in verdict[id]} IN
  SelectSeq(nodes, LAMBDA n : n.id \notin gone /\ n.above \cap gone = {})

NotBegun == now = 0 /\ Len(frames) = 1 /\ Inner.turn = 1 /\ w.at = "begin"

\* However many strategies are removed while the walk is among them, it visits every strategy
\* that it should, once and in order, removes what it was told to and nothing else, and
\* reports an error only when the visit that ended the walk returned one without a meaning.
WalkIsRight ==
  NotBegun =>
    LET tree == Nodes(plan, <<>>)
        nodes == Preorder(tree) IN
    \A verdict \in [ToSet(Ids(nodes)) -> Verdicts] :
      LET walk == Walk(tree, verdict)
          ends == {id \in ToSet(walk.visited) : Halts(verdict[id])} IN
      /\ walk.visited = Ids(ShouldVisit(nodes, verdict))
      /\ Ids(Preorder(walk.node)) = Ids(ShouldRemain(nodes, verdict))
      /\ walk.err # {} <=> \E id \in ends : verdict[id] = {"other"}

=============================================================================
