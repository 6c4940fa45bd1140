-------------------------------- MODULE Mesh --------------------------------
(***************************************************************************)
(* A half-edge mesh (src/libs/level3/meshmod): vertices with a position,   *)
(* polygons, and the half edges that tie them together. Vertices that      *)
(* share a position are linked into rings (point reps) and may be welded;  *)
(* deleted elements stay, marked, until updateFromEdits repacks. Half      *)
(* edges of two polygons along the same edge are each other's pair.        *)
(*                                                                         *)
(* Indices count from 1 and Invalid is 0. A vertex's list of half edges is *)
(* a set: the code appends new indices and erases, so it is always in      *)
(* ascending order.                                                        *)
(***************************************************************************)
EXTENDS Integers, SequencesExt

CONSTANTS
  Positions, X,     \* the points of space, and their coordinate along the axis
  Faces,            \* the lists of vertices a caller makes polygons of
  Transforms,       \* what a caller's matrices do to the points
  MaybeDeleted,     \* memory that was never set may read as the mark of a deletion
  MaxVertices, MaxPolygons, MaxEdits  \* bounds of what a caller does

Invalid == 0

ASSUME MeshAssumption ==
  /\ X \in [Positions -> Nat]
  /\ Faces \subseteq Seq(1..MaxVertices)
  /\ Transforms \subseteq [Positions -> Positions]
  /\ MaybeDeleted \in BOOLEAN
  /\ {MaxVertices, MaxPolygons, MaxEdits} \subseteq Nat

Edit == {"vertexAttribute", "position", "topologyAttribute", "topology", "maintenance"}
(* 0x16 sets the bits of two other edits as well. *)
MaintenanceEdits == {"position", "topologyAttribute", "maintenance"}

VARIABLES
  mesh,           \* the elements, below
  edits,          \* what was edited since updateFromEdits
  keepsPointReps, \* maintain: whether rings outlive edits
  hasPointReps,   \* whether there are point reps at all
  op,             \* the last operation (history)
  fanned,         \* whether polygons are fans whose prev is stale (history)
  torn,           \* whether such a polygon was removed, or a mesh welded that still
                  \* holds vertices of an earlier weld (history)
  edited          \* how often the mesh was edited (bound)

vars == <<mesh, edits, keepsPointReps, hasPointReps, op, fanned, torn, edited>>

vertices == mesh.vertices    \* [position, live, halfEdges] in the order of their indices
ring == mesh.ring            \* the point reps: the next vertex that shares the position
halfEdges == mesh.halfEdges  \* [start, end, polygon, pair, prev, next, live]
polygons == mesh.polygons    \* [any, live]

Index(s) == 0..Len(s)
Each(s, F(_, _)) == SubSeq([k \in DOMAIN s |-> F(k, s[k])], 1, Len(s))
Live(s, i) == i \in 1..Len(s) /\ s[i].live

(* The numbers of a set in ascending order. *)
Ascending(S) ==
  [k \in 1..Cardinality(S) |-> CHOOSE i \in S : Cardinality({j \in S : j <= i}) = k]

MeshTypeOK ==
  /\ vertices \in Seq([position : Positions, live : BOOLEAN,
                       halfEdges : SUBSET (1..Len(halfEdges))])
  /\ ring \in [1..Len(vertices) -> Index(vertices)]
  /\ halfEdges \in Seq([start : Index(vertices), end : Index(vertices),
                        polygon : Index(polygons), pair : Index(halfEdges),
                        prev : Index(halfEdges), next : Index(halfEdges),
                        live : BOOLEAN])
  /\ polygons \in Seq([any : Index(halfEdges), live : BOOLEAN])
  /\ edits \subseteq Edit
  /\ {keepsPointReps, hasPointReps, fanned, torn} \subseteq BOOLEAN
  /\ edited \in 0..MaxEdits

Init ==
  /\ mesh = [vertices |-> <<>>, ring |-> <<>>, halfEdges |-> <<>>, polygons |-> <<>>]
  /\ edits = Edit
  /\ keepsPointReps \in BOOLEAN /\ hasPointReps = TRUE
  /\ op = "new" /\ fanned = FALSE /\ torn = FALSE /\ edited = 0

-----------------------------------------------------------------------------
(* Walking a polygon *)

(* visitLoop, getHalfEdgeIndices: from any half edge along next, up to the    *)
(* first again or to one that is not valid.                                   *)
Loop(m, p) ==
  LET after == [h \in Index(m.halfEdges) |->
                  IF Live(m.halfEdges, h) THEN m.halfEdges[h].next ELSE Invalid]
      at[k \in Index(m.halfEdges)] == IF k = 0 THEN m.polygons[p].any ELSE after[at[k-1]]
      Ends(k) == ~Live(m.halfEdges, at[k]) \/ (k > 0 /\ at[k] = at[0])
      length == Min({k \in DOMAIN at : Ends(k)} \cup {Len(m.halfEdges)})
  IN [k \in 1..length |-> at[k-1]]

Starts(m, p) == Each(Loop(m, p), LAMBDA k, h : m.halfEdges[h].start)

(* getVertexIndices *)
Corners(m, p) ==
  LET starts == Starts(m, p)
      valid == Ascending({k \in DOMAIN starts : Live(m.vertices, starts[k])})
  IN [j \in DOMAIN valid |-> starts[valid[j]]]

-----------------------------------------------------------------------------
(* Adding *)

(* The callers add to a mesh they have just made. *)
Building == edits = Edit /\ op \in {"new", "add"}

(* Vertices::add: a new mesh has point reps from its first vertex on. *)
AddVertex ==
  /\ Building
  /\ Len(vertices) < MaxVertices
  /\ \E p \in Positions :
       mesh' = [mesh EXCEPT
         !.vertices = Append(@, [position |-> p, live |-> TRUE, halfEdges |-> {}]),
         !.ring = Append(@, Len(vertices) + 1)]
  /\ op' = "add"
  /\ UNCHANGED <<edits, keepsPointReps, hasPointReps, fanned, torn, edited>>

(* HalfEdges::add: the half edges entered in a vertex's list. *)
NotedAt(m, added, v) == {h \in DOMAIN added : v \in {added[h].start, added[h].end}}

(* Polygons::addPolygon: stops at the first corner that is deleted, with the  *)
(* polygon and the half edges before it in place.                             *)
WithPolygon(m, face) ==
  LET n == Len(face)
      first == Len(m.halfEdges) + 1
      Corner(k) == face[((k - 1) % n) + 1]
      refused == {k \in 1..n : ~Live(m.vertices, Corner(k)) \/ ~Live(m.vertices, Corner(k+1))}
      added == [k \in 1..Min({j - 1 : j \in refused} \cup {n}) |->
                 [start |-> Corner(k), end |-> Corner(k + 1),
                  polygon |-> Len(m.polygons) + 1, pair |-> Invalid,
                  prev |-> first + ((k + n - 2) % n), next |-> first + (k % n),
                  live |-> TRUE]]
  IN [m EXCEPT
       !.polygons = Append(@, [any |-> IF n = 0 THEN Invalid ELSE first, live |-> TRUE]),
       !.halfEdges = @ \o added,
       !.vertices = Each(@, LAMBDA v, e :
          [e EXCEPT !.halfEdges = @ \cup {first + h - 1 : h \in NotedAt(m, added, v)}])]

(* The callers make polygons of vertices that are not deleted. *)
AddPolygon ==
  /\ Building
  /\ Len(polygons) < MaxPolygons
  /\ \E face \in Faces :
       /\ \A k \in DOMAIN face : Live(vertices, face[k])
       /\ mesh' = WithPolygon(mesh, face)
  /\ op' = "add"
  /\ UNCHANGED <<edits, keepsPointReps, hasPointReps, fanned, torn, edited>>

-----------------------------------------------------------------------------
(* Point reps *)

(* The point reps there are: those just allocated hold what was in memory.   *)
OldPointReps(m, kept) ==
  IF kept THEN {m.ring}
  ELSE [DOMAIN m.vertices -> IF MaybeDeleted THEN {Invalid, 1} ELSE {1}]

(* The orders in which std::sort may leave the vertices. *)
SortOrders(m) ==
  {s \in Bijection(DOMAIN m.vertices, DOMAIN m.vertices) :
     \A j, k \in DOMAIN s :
       j < k => X[m.vertices[s[j]].position] <= X[m.vertices[s[k]].position]}

(* Mutant: a vertex is linked in front of the one it is like. *)
LinkedOnce(m, order, reps, k) ==
  LET v == order[k]
      Like(j) == /\ Live(m.vertices, order[j])
                 /\ m.vertices[order[j]].position = m.vertices[v].position
      like == {j \in 1..k-1 : Like(j)}
  IN IF ~Live(m.vertices, v) \/ like = {} THEN reps
     ELSE [reps EXCEPT ![v] = order[Max(like)]]

(* The k-th vertex in that order joins the ring of the last one before it at  *)
(* its position.                                                              *)
Linked(m, order, reps, k) ==
  LET v == order[k]
      Like(j) == /\ Live(m.vertices, order[j])
                 /\ m.vertices[order[j]].position = m.vertices[v].position
      like == {j \in 1..k-1 : Like(j)}
  IN IF ~Live(m.vertices, v) \/ like = {} THEN reps
     ELSE LET back == order[Max(like)]
          IN [reps EXCEPT ![back] = v, ![v] = reps[back]]

(* createPointReps: each vertex first points to itself, unless its point rep  *)
(* says it is deleted.                                                        *)
WithPointReps(m, order, old) ==
  LET self == [v \in DOMAIN m.vertices |->
                 IF Live(m.vertices, v) /\ old[v] # Invalid THEN v ELSE old[v]]
  IN [m EXCEPT !.ring =
        FoldLeft(LAMBDA reps, k : Linked(m, order, reps, k), self,
                 [k \in DOMAIN m.vertices |-> k])]

PointRepsOf(m, kept) ==
  {WithPointReps(m, order, old) : order \in SortOrders(m), old \in OldPointReps(m, kept)}

-----------------------------------------------------------------------------
(* Welding *)

(* The other vertices of v's ring. *)
Similar(m, v) ==
  LET after == [w \in Index(m.vertices) |-> IF w \in {v, Invalid} THEN w ELSE m.ring[w]]
      at[k \in Index(m.vertices)] == IF k = 0 THEN m.ring[v] ELSE after[at[k-1]]
  IN Range(at) \ {v, Invalid}

(* Mutant: half edges keep the end they had. *)
WeldedStarts(m, v) ==
  LET gone == Similar(m, v)
      Moved(h, w) == IF w \in gone /\ h \in m.vertices[w].halfEdges THEN v ELSE w
  IN IF ~Live(m.vertices, v) THEN m
     ELSE [m EXCEPT
            !.halfEdges = Each(@, LAMBDA h, e : [e EXCEPT !.start = Moved(h, @)]),
            !.vertices = Each(@, LAMBDA w, e : [e EXCEPT !.live = @ /\ w \notin gone]),
            !.ring = Each(@, LAMBDA w, next :
               IF w = v THEN v ELSE IF w \in gone THEN Invalid ELSE next)]

(* weldSimilar, and a round of removeAllSimilarPositions: their half edges    *)
(* now start and end at v, though v's list does not have them.                *)
WeldedTo(m, v) ==
  LET gone == Similar(m, v)
      Moved(h, w) == IF w \in gone /\ h \in m.vertices[w].halfEdges THEN v ELSE w
  IN IF ~Live(m.vertices, v) THEN m
     ELSE [m EXCEPT
            !.halfEdges = Each(@, LAMBDA h, e :
               [e EXCEPT !.start = Moved(h, @), !.end = Moved(h, @)]),
            !.vertices = Each(@, LAMBDA w, e : [e EXCEPT !.live = @ /\ w \notin gone]),
            !.ring = Each(@, LAMBDA w, next :
               IF w = v THEN v ELSE IF w \in gone THEN Invalid ELSE next)]

Welded(m) == FoldLeft(WeldedTo, m, [v \in DOMAIN m.vertices |-> v])

(* removeAllSimilarPositions, called on a new mesh or right after             *)
(* updateFromEdits: it makes point reps if there are none.                    *)
Weld ==
  /\ op \in {"rebuild", "update", "triangulate"} \/ edits = Edit
  /\ \E m \in IF hasPointReps THEN {mesh} ELSE PointRepsOf(mesh, FALSE) : mesh' = Welded(m)
  /\ hasPointReps' = TRUE
  /\ edits' = edits \cup {"topology"}
  /\ op' = "weld"
  /\ torn' = (torn \/ \E v \in DOMAIN vertices : ~vertices[v].live)
  /\ UNCHANGED <<keepsPointReps, fanned, edited>>

-----------------------------------------------------------------------------
(* Pairs *)

Unpaired(m) ==
  [m EXCEPT !.halfEdges = Each(@, LAMBDA h, e : [e EXCEPT !.pair = Invalid])]

Ends(e) == {e.start, e.end}

(* Mutant: a half edge with a pair is given another. *)
PairedAnew(m, h) ==
  LET e == m.halfEdges[h]
      like == {g \in m.vertices[Min(Ends(e))].halfEdges \ {h} : Ends(m.halfEdges[g]) = Ends(e)}
  IN IF like = {} THEN m
     ELSE [m EXCEPT !.halfEdges[h].pair = Min(like), !.halfEdges[Min(like)].pair = h]

(* A half edge is paired with the first one of its lower end's list that has  *)
(* the same two ends and no pair.                                             *)
Paired(m, h) ==
  LET e == m.halfEdges[h]
      like == {g \in m.vertices[Min(Ends(e))].halfEdges \ {h} :
                 m.halfEdges[g].pair = Invalid /\ Ends(m.halfEdges[g]) = Ends(e)}
  IN IF Invalid \in Ends(e) \/ e.pair # Invalid \/ like = {} THEN m
     ELSE [m EXCEPT !.halfEdges[h].pair = Min(like), !.halfEdges[Min(like)].pair = h]

(* breakPairs, connectPairs *)
Connected(m) ==
  LET visited == FlattenSeq([p \in DOMAIN m.polygons |->
                               IF m.polygons[p].live THEN Loop(m, p) ELSE <<>>])
  IN FoldLeft(Paired, Unpaired(m), visited)

-----------------------------------------------------------------------------
(* updateFromEdits *)

(* Mutant: the index is not mapped. *)
NewIndexKept(newToOld, v) == v

(* Mutant: indices count from the vertex before. *)
NewIndexBefore(newToOld, v) == Max({1, Cardinality({k \in DOMAIN newToOld : newToOld[k] < v})})

(* Vertices::repack: the new index of a vertex. *)
NewIndex(newToOld, v) == Cardinality({k \in DOMAIN newToOld : newToOld[k] <= v})

WithFace(m, face) == IF face = <<>> THEN m ELSE WithPolygon(m, face)

(* cleanAndRepack: if a vertex or a polygon is deleted, the live vertices move *)
(* together and the polygons are made again of their corners.                 *)
Repacked(m) ==
  LET newToOld == Ascending({v \in DOMAIN m.vertices : Live(m.vertices, v)})
      OldToNew(v) == NewIndex(newToOld, v)
      faces == [p \in DOMAIN m.polygons |-> Each(Corners(m, p), LAMBDA k, v : OldToNew(v))]
      moved == [vertices |-> [k \in DOMAIN newToOld |->
                                [m.vertices[newToOld[k]] EXCEPT !.halfEdges = {}]],
                ring |-> [k \in DOMAIN newToOld |-> OldToNew(m.ring[newToOld[k]])],
                halfEdges |-> <<>>, polygons |-> <<>>]
  IN IF /\ \A v \in DOMAIN m.vertices : m.vertices[v].live
        /\ \A p \in DOMAIN m.polygons : m.polygons[p].live
     THEN m
     ELSE FoldLeft(WithFace, moved, faces)

(* removeDerived takes the point reps away. *)
DropsPointReps ==
  \/ "topology" \in edits
  \/ "position" \in edits /\ "topologyAttribute" \notin edits

Maintains == DropsPointReps \/ edits \cap MaintenanceEdits # {}

HasDeleted == \E s \in {vertices, polygons} : \E k \in DOMAIN s : ~s[k].live

(* What updateFromEdits may leave. *)
Updates ==
  LET kept == hasPointReps /\ ~DropsPointReps
  IN IF ~Maintains
     THEN {[mesh |-> mesh, pointReps |-> hasPointReps, fanned |-> fanned]}
     ELSE IF keepsPointReps
     THEN {[mesh |-> Connected(Repacked(m)), pointReps |-> TRUE,
            fanned |-> fanned /\ ~HasDeleted] : m \in PointRepsOf(mesh, kept)}
     ELSE {[mesh |-> Connected(mesh), pointReps |-> kept, fanned |-> fanned]}

Update ==
  /\ vertices # <<>>
  /\ \E u \in Updates : /\ mesh' = u.mesh
                       /\ hasPointReps' = u.pointReps /\ fanned' = u.fanned
  /\ edits' = {}
  /\ op' = IF Maintains THEN "rebuild" ELSE "update"
  /\ UNCHANGED <<keepsPointReps, torn, edited>>

-----------------------------------------------------------------------------
(* Mesh operations (src/libs/level4/meshops) *)

(* ngulate<3>: a polygon of more than three sides becomes a fan of triangles  *)
(* around its first corner; next goes around each, prev stays as it was.      *)
FannedAt(m, p) ==
  LET sides == Loop(m, p)
      n == Len(sides)
      old == Len(m.halfEdges)
      Polygon(t) == IF t = 0 THEN p ELSE Len(m.polygons) + t
      centre == m.halfEdges[sides[1]].start
      (* the diagonals, there and back: into triangle t, out of the next one *)
      added == [j \in 1..2*(n - 3) |->
                 LET t == j \div 2
                     tip == m.halfEdges[sides[((j - 1) \div 2) + 2]].end
                 IN [start |-> IF j % 2 = 1 THEN tip ELSE centre,
                     end |-> IF j % 2 = 1 THEN centre ELSE tip,
                     polygon |-> Polygon(t), pair |-> Invalid,
                     prev |-> Invalid, next |-> Invalid, live |-> TRUE]]
      Triangle(t) == <<IF t = 0 THEN sides[1] ELSE old + 2*t, sides[t + 2],
                       IF t = n - 3 THEN sides[n] ELSE old + 2*t + 1>>
      TriangleOf(h) == CHOOSE t \in 0..n-3 : h \in Range(Triangle(t))
      Turned(h, e) ==
        IF \A t \in 0..n-3 : h \notin Range(Triangle(t)) THEN e
        ELSE LET t == TriangleOf(h)
                 k == CHOOSE k \in 1..3 : Triangle(t)[k] = h
             IN [e EXCEPT !.polygon = Polygon(t), !.next = Triangle(t)[(k % 3) + 1]]
  IN IF n <= 3 THEN m
     ELSE [m EXCEPT
            !.halfEdges = Each(@, Turned)
                          \o [j \in DOMAIN added |-> Turned(old + j, added[j])],
            !.polygons = [@ EXCEPT ![p].any = Triangle(0)[1]]
                         \o [t \in 1..n-3 |-> [any |-> Triangle(t)[1], live |-> TRUE]],
            !.vertices = Each(@, LAMBDA v, e :
               [e EXCEPT !.halfEdges = @ \cup {old + h : h \in NotedAt(m, added, v)}])]

Triangulate ==
  /\ vertices # <<>>
  /\ \E u \in Updates :
       /\ mesh' = FoldLeft(FannedAt, u.mesh, [p \in DOMAIN u.mesh.polygons |-> p])
       /\ hasPointReps' = u.pointReps
       /\ fanned' = (u.fanned \/ mesh' # u.mesh)
  /\ edits' = {}
  /\ op' = "triangulate"
  /\ UNCHANGED <<keepsPointReps, torn, edited>>

(* transform: the vertices move. *)
Transform ==
  /\ edited < MaxEdits
  /\ \E to \in Transforms :
       mesh' = [mesh EXCEPT !.vertices =
                  Each(@, LAMBDA v, e : [e EXCEPT !.position = to[@]])]
  /\ edits' = edits \cup {"position"}
  /\ op' = "transform"
  /\ edited' = edited + 1
  /\ UNCHANGED <<keepsPointReps, hasPointReps, fanned, torn>>

(* updateEditState *)
UpdateEditState ==
  /\ edited < MaxEdits
  /\ \E e \in Edit \ edits : edits' = edits \cup {e}
  /\ op' = "edit"
  /\ edited' = edited + 1
  /\ UNCHANGED <<mesh, keepsPointReps, hasPointReps, fanned, torn>>

-----------------------------------------------------------------------------
(* Removing *)

(* HalfEdges::remove *)
WithoutHalfEdge(m, h) ==
  LET e == m.halfEdges[h]
      last == e.next \in {Invalid, h}
      end == IF e.prev = h THEN e.start ELSE e.end    \* relinked with itself
      start == IF e.next = h THEN end ELSE e.start
      Relinked(g, f) ==
        [f EXCEPT !.end = IF g = e.prev THEN e.start ELSE @,
                  !.start = IF g = e.next THEN e.end ELSE @,
                  !.next = IF g = e.prev THEN e.next ELSE @,
                  !.prev = IF g = e.next THEN e.prev ELSE @,
                  !.pair = IF g = e.pair THEN Invalid ELSE @]
  IN IF ~Live(m.halfEdges, h) THEN m
     ELSE [m EXCEPT
            !.polygons = Each(@, LAMBDA p, f :
               IF p # e.polygon THEN f
               ELSE [any |-> IF last THEN Invalid ELSE e.next, live |-> f.live /\ ~last]),
            !.halfEdges = Each(@, LAMBDA g, f :
               IF g = h THEN [f EXCEPT !.prev = Invalid, !.next = Invalid, !.pair = Invalid,
                                       !.polygon = Invalid, !.live = FALSE,
                                       !.start = start, !.end = end]
               ELSE Relinked(g, f)),
            !.vertices = Each(@, LAMBDA v, f :
               IF f.live /\ v \in {start, end} THEN [f EXCEPT !.halfEdges = @ \ {h}] ELSE f)]

(* Polygons::remove *)
RemovePolygon ==
  /\ edited < MaxEdits
  /\ \E p \in DOMAIN polygons :
       /\ polygons[p].live
       /\ mesh' = [FoldLeft(WithoutHalfEdge, mesh, Loop(mesh, p)) EXCEPT
                     !.polygons[p] = [any |-> Invalid, live |-> FALSE]]
  /\ op' = "removePolygon"
  /\ edited' = edited + 1
  /\ torn' = (torn \/ fanned)
  /\ UNCHANGED <<edits, keepsPointReps, hasPointReps, fanned>>

-----------------------------------------------------------------------------
Next ==
  \/ AddVertex \/ AddPolygon \/ Weld \/ Update
  \/ Triangulate \/ Transform \/ UpdateEditState \/ RemovePolygon

Spec == Init /\ [][Next]_vars

-----------------------------------------------------------------------------
(* Properties *)

(* halfedges.cpp 284-355: after an update every pair is mutual and along one  *)
(* edge, and no two half edges along an edge are left that could be a pair:   *)
(* what is welded, repacked and triangulated is found through the lists of    *)
(* the vertices.                                                              *)
PairsMatch ==
  op = "rebuild" /\ ~torn =>
    \A h \in DOMAIN halfEdges : halfEdges[h].live =>
      LET e == halfEdges[h]
      IN /\ e.pair # Invalid =>
              /\ e.pair # h /\ halfEdges[e.pair].live
              /\ halfEdges[e.pair].pair = h /\ Ends(halfEdges[e.pair]) = Ends(e)
         /\ e.pair = Invalid /\ keepsPointReps =>
              \A g \in DOMAIN halfEdges \ {h} :
                ~(/\ halfEdges[g].live /\ halfEdges[g].pair = Invalid
                  /\ Ends(halfEdges[g]) = Ends(e))

(* vertices.cpp 77-151, 522-607: after an update nothing is left of deleted   *)
(* vertices, and the ring of a vertex has just the vertices at its position.  *)
RingsAreClasses ==
  op = "rebuild" /\ keepsPointReps =>
    \A v \in DOMAIN vertices :
      /\ vertices[v].live
      /\ {v} \cup Similar(mesh, v) =
           {w \in DOMAIN vertices : vertices[w].position = vertices[v].position}

(* polygons.cpp 30-67, 91-107, basicmeshops.cpp 160-259: around every polygon *)
(* the half edges are its own, each ends where the next one starts, and the   *)
(* last one leads to the first.                                               *)
LoopsClose ==
  ~torn =>
    \A p \in DOMAIN polygons : polygons[p].live =>
      LET loop == Loop(mesh, p)
      IN \A k \in DOMAIN loop :
           LET e == halfEdges[loop[k]]
               f == halfEdges[loop[(k % Len(loop)) + 1]]
           IN /\ e.live /\ e.polygon = p
              /\ e.next = loop[(k % Len(loop)) + 1] /\ e.end = f.start
              /\ fanned \/ f.prev = loop[k]

(* The polygons that are not deleted, as the points of their corners. *)
Shape(m) ==
  LET p == Ascending({k \in DOMAIN m.polygons : m.polygons[k].live})
      At(k) == Each(Corners(m, k), LAMBDA c, v : m.vertices[v].position)
  IN Each(p, LAMBDA i, k : At(k))

Fan(s) == [t \in 1..Len(s) - 2 |-> <<s[1], s[t + 1], s[t + 2]>>]

(* What triangulating makes of polygons: the first triangle stays in place,   *)
(* the others follow at the end.                                              *)
FanShape(shape) ==
  [k \in DOMAIN shape |-> IF Len(shape[k]) > 3 THEN Fan(shape[k])[1] ELSE shape[k]]
  \o FlattenSeq([k \in DOMAIN shape |->
        IF Len(shape[k]) > 3 THEN Tail(Fan(shape[k])) ELSE <<>>])

(* vertices.cpp 243-290, mesh.cpp 111-156, 279-336, basicmeshops.cpp 160-259: *)
(* welding, updating and with it repacking change no polygon in space, and    *)
(* triangulating makes of each the fan around its first corner.               *)
ShapeKept ==
  [][~torn' =>
       /\ op' \in {"weld", "update", "rebuild"} => Shape(mesh') = Shape(mesh)
       /\ op' = "triangulate" => Shape(mesh') = FanShape(Shape(mesh))]_vars

=============================================================================
