------------------------------ MODULE Knowledge ------------------------------
(***************************************************************************)
(* The tree of the knowledge base, its access rules and what an employee   *)
(* finds in it: services/knowledge.py.                                     *)
(*                                                                         *)
(* A move locks the row it moves (FOR UPDATE), walks the ancestors of the  *)
(* new parent with one SELECT for each, and writes parent_id at the end.   *)
(* The foreign key takes FOR KEY SHARE of the new parent, so the write     *)
(* waits for a request that has locked that row.  Positions, titles and    *)
(* contents are left out; the files of pages are in module Files.          *)
(***************************************************************************)
EXTENDS Integers

CONSTANTS LastNode,   \* nodes that are ever made; their ids in the order of creation
          Clients,    \* requests of the API that run at one time
          Grants,     \* what replace_access is called with
          MaxChanges,   \* bound on the moves and the calls of replace_access
          Root,       \* parent_id of a root: NULL
          Gone,       \* a node that has been deleted: ids are not used again
          None        \* no node yet, no rule, no request

VARIABLES parent,   \* parent_id of each node; None before it is made, Gone after
          access,   \* the rules of each node for one employee, and all_members
          move,     \* the move each request is at
          overlap,  \* two moves have been under way at one time
          changes

knowledgeVars == <<parent, access, move, overlap, changes>>

Nodes == 1..LastNode

\* KnowledgeAccessEffect, or no rule
Effects == {"allow", "deny", None}

Rules == [mine : Effects, role : Effects, allMembers : BOOLEAN]

Unruled == [mine |-> None, role |-> None, allMembers |-> FALSE]

KnowledgeAssumption ==
    /\ LastNode \in Nat
    /\ Root \notin Nodes \cup {None, Gone}
    /\ None \notin Nodes \cup {Gone}
    /\ Gone \notin Nodes
    /\ Grants \subseteq Rules

Existing == {n \in Nodes : parent[n] \notin {None, Gone}}

Init ==
    /\ parent = [n \in Nodes |-> None]
    /\ access = [n \in Nodes |-> Unruled]
    /\ move = [h \in Clients |-> None]
    /\ overlap = FALSE
    /\ changes = 0

(***************************************************************************)
(* Who reads what                                                          *)
(***************************************************************************)

\* The node k levels above n.
Above(n) ==
    LET up[k \in 0..LastNode] ==
            IF k = 0 THEN n
            ELSE IF up[k - 1] \in Existing THEN parent[up[k - 1]] ELSE up[k - 1]
    IN  up

\* _path_ids: from the node to the root, or once round a cycle.
Levels(n) ==
    {k \in 0..LastNode :
        /\ Above(n)[k] \in Existing
        /\ \A i \in 0..(k - 1) : Above(n)[i] # Above(n)[k]}

Path(n) == {Above(n)[k] : k \in Levels(n)}

\* The rule of one category that is nearest to n, if its path has one.
NearestRule(n, rule) ==
    LET ruled == {k \in Levels(n) : rule[Above(n)[k]] # None} IN
    IF ruled = {} THEN None
    ELSE rule[Above(n)[CHOOSE k \in ruled : \A i \in ruled : k <= i]]

\* _resolve_employee
Readable(n) ==
    LET mine == NearestRule(n, [m \in Nodes |-> access[m].mine])
        role == NearestRule(n, [m \in Nodes |-> access[m].role])
    IN  IF mine # None THEN mine = "allow"
        ELSE IF role # None THEN role = "allow"
        ELSE \E m \in Path(n) : access[m].allMembers

\* mark of _compute_visible
Marked(n) == \E m \in Existing : Readable(m) /\ n \in Path(m)

\* _compute_visible: from the roots down.
Visible == {n \in Existing : Marked(n) /\ \E m \in Path(n) : parent[m] = Root}

(***************************************************************************)
(* Requests                                                                *)
(***************************************************************************)

Moving == {h \in Clients : move[h] # None}

Locked == {move[h].node : h \in Moving}

\* create_node; the foreign key waits for a parent that is being moved.
CreateNode(n, under) ==
    /\ parent[n] = None /\ \A m \in 1..(n - 1) : parent[m] # None
    /\ under \in (Existing \ Locked) \cup {Root}
    /\ parent' = [parent EXCEPT ![n] = under]
    /\ UNCHANGED <<access, move, overlap, changes>>

\* delete_node: ON DELETE CASCADE, below whatever is under it by then.
DeleteNode(n) ==
    LET subtree == {m \in Existing : n \in Path(m)} IN
    /\ n \in Existing
    /\ subtree \cap Locked = {}
    /\ parent' = [m \in Nodes |-> IF m \in subtree THEN Gone ELSE parent[m]]
    /\ UNCHANGED <<access, move, overlap, changes>>

\* replace_access
ReplaceAccess(n, rules) ==
    /\ n \in Existing \ Locked
    /\ changes < MaxChanges
    /\ changes' = changes + 1
    /\ access' = [access EXCEPT ![n] = rules]
    /\ UNCHANGED <<parent, move, overlap>>

\* Mutant: SELECT without FOR UPDATE.
NothingLocked(h) == {}

LockedByOthers(h) == {move[k].node : k \in Moving \ {h}}

\* _get_node for update, and the first refusals of _move_node
LoadMove(h, n, to) ==
    /\ move[h] = None
    /\ n \in Existing \ LockedByOthers(h)
    /\ to \in (Existing \ {n}) \cup {Root}
    /\ move' = [move EXCEPT ![h] = [node |-> n, to |-> to, cursor |-> to, seen |-> {}]]
    /\ overlap' = (overlap \/ Moving # {})
    /\ changes < MaxChanges
    /\ changes' = changes + 1
    /\ UNCHANGED <<parent, access>>

\* Mutant: the walk looks at parents only, and so misses the new parent itself.
WalkFromParent(m) == {m.seen \cup ({parent[m.cursor]} \cap Nodes)}

Walked(m) == {m.seen \cup {m.cursor}}

\* One SELECT of _ancestor_ids.
Ancestor(h) ==
    LET m == move[h] IN
    /\ h \in Moving
    /\ m.cursor \in Existing \ m.seen
    /\ \E seen \in Walked(m) :
        move' = [move EXCEPT ![h].cursor = parent[m.cursor], ![h].seen = seen]
    /\ UNCHANGED <<parent, access, overlap, changes>>

WalkIsOver(m) == m.cursor \notin Existing \ m.seen

\* KNOWLEDGE_NODE_CYCLE, a new parent that is gone, a deadlock or a lost connection.
MoveFails(h) ==
    /\ h \in Moving
    /\ move' = [move EXCEPT ![h] = None]
    /\ UNCHANGED <<parent, access, overlap, changes>>

CommitMove(h) ==
    LET m == move[h] IN
    /\ h \in Moving /\ WalkIsOver(m)
    /\ m.node \in Existing /\ m.node \notin m.seen
    /\ m.to \in (Existing \ LockedByOthers(h)) \cup {Root}
    /\ parent' = [parent EXCEPT ![m.node] = m.to]
    /\ move' = [move EXCEPT ![h] = None]
    /\ UNCHANGED <<access, overlap, changes>>

Next ==
    \/ \E n \in Nodes, to \in Nodes \cup {Root} :
        CreateNode(n, to) \/ \E h \in Clients : LoadMove(h, n, to)
    \/ \E n \in Nodes : DeleteNode(n) \/ \E rules \in Grants : ReplaceAccess(n, rules)
    \/ \E h \in Clients : Ancestor(h) \/ MoveFails(h) \/ CommitMove(h)

Spec == Init /\ [][Next]_knowledgeVars

(***************************************************************************)
(* Properties                                                              *)
(***************************************************************************)

\* Type invariant: nodes hang under nodes of the base.
TypeOK ==
    /\ \A n \in Existing : parent[n] \in Existing \cup {Root}
    /\ \A n \in Nodes : access[n] \in Rules
    /\ \A h \in Moving : move[h].node \in Existing /\ move[h].seen \subseteq Nodes
    /\ overlap \in BOOLEAN

\* Two nodes are never each other's parents: a counter-move waits for the row lock of
\* the other until one of the two fails (_get_node for update, the foreign key).
NoMutualParents ==
    \A n \in Existing : parent[n] \in Existing => parent[parent[n]] # n

\* Moves that do not overlap keep the base a tree in which an employee finds each node
\* that he may read (_move_node, _compute_visible).
ReadableIsListed ==
    ~overlap => \A n \in Existing : Readable(n) => n \in Visible

\* What the comment of _path_ids hopes for; longer counter-moves break it.
NoCycles == \A n \in Existing : \E m \in Path(n) : parent[m] = Root

=============================================================================
