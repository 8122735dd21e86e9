------------------------------ MODULE Collada ------------------------------
(***************************************************************************)
(* Dae_loader_t (core/loader/dae.cpp) on the tree that Xml_t made of a     *)
(* file: init reads the sources, the hierarchy of joints with the meshes   *)
(* that hang from it, the skins and the animations, and then the           *)
(* application asks for the matrices of the joints at one time after       *)
(* another.                                                                *)
(*                                                                         *)
(* The text of an element is a sequence of numbers or names, where a       *)
(* position, a normal or a matrix is one member.  Matrices are sequences   *)
(* of names: the product of two is the one followed by the other.          *)
(***************************************************************************)
EXTENDS XmlParser, FiniteSetsExt, Functions

CONSTANTS
  Times,      \* the times that are asked for
  MaxUpdates  \* bound: how often

ASSUME TimesAssumption == Times \subseteq Nat /\ MaxUpdates \in Nat

VARIABLES
  step,
  sources,     \* id -> array
  todo,        \* the elements below the joint that is read: [element, parent]
  controllers, \* the skins that remain
  matrices,    \* m_joint_matrices
  parents,     \* the joint each joint is a child of; 0 for the root
  jointMap,    \* id -> the joint
  inverse,     \* m_inv_bind_matrices
  vertices, animations,
  asked,       \* ghost: the times asked for
  broken

loaderVars == <<sources, todo, controllers, matrices, parents, jointMap, inverse, vertices, animations>>
vars == <<xmlVars, step, loaderVars, asked, broken>>

-----------------------------------------------------------------------------
(* Xml_node_t *)

RECURSIVE Descendants(_)
Descendants(element) ==
  FlattenSeq([k \in DOMAIN element.children |->
    <<element.children[k]>> \o Descendants(element.children[k])])

FirstOf(elements) == IF elements = <<>> THEN None ELSE Head(elements)

FindAllByTag(element, tag) == SelectSeq(Descendants(element), LAMBDA x : x.tag = tag)
FindFirstByTag(element, tag) == FirstOf(FindAllByTag(element, tag))
CountAllByTag(element, tag) == Len(FindAllByTag(element, tag))
HasAttribute(x, name, value) == name \in DOMAIN x.attributes /\ x.attributes[name] = value
FindFirstByAttr(element, name, value) ==
  FirstOf(SelectSeq(Descendants(element), LAMBDA x : HasAttribute(x, name, value)))

(* The loader only asks for paths of one name.                             *)
FindFirstByPath(element, tag) == FirstOf(SelectSeq(element.children, LAMBDA x : x.tag = tag))

-----------------------------------------------------------------------------
(* Meshes *)

(* The array an input of the element takes what it means from.             *)
InputOf(element, semantic) == FindFirstByAttr(element, "semantic", semantic)
ArrayOf(element, semantic) == sources[InputOf(element, semantic).attributes["source"]]

(* The position, the joints and the weights of each vertex of a mesh that  *)
(* hangs from a joint, or has a skin.                                      *)
HungVertices(positions, joint) ==
  [i \in DOMAIN positions |->
    [position |-> positions[i], joints |-> <<joint>>, weights |-> <<<<1, 1>>>>]]

(* Mutant: the entries of a vertex start one too early. *)
SkinnedVerticesEarly(positions, controller) ==
  LET weighted == FindFirstByTag(controller, "vertex_weights")
      counts == FindFirstByTag(weighted, "vcount").text
      v == FindFirstByTag(weighted, "v").text
      stride == CountAllByTag(weighted, "input")
      names == ArrayOf(weighted, "JOINT")
      weights == ArrayOf(weighted, "WEIGHT")
      Entry(i, j, semantic) ==
        v[stride * (SumFunction(SubSeq(counts, 1, i - 1)) + j - (IF i > 1 THEN 2 ELSE 1))
            + InputOf(weighted, semantic).attributes["offset"] + 1]
      Weight(i, j) == weights[Entry(i, j, "WEIGHT") + 1]
  IN  [i \in DOMAIN positions |->
        [position |-> FindFirstByTag(controller, "bind_shape_matrix").text \o positions[i],
         joints |-> [j \in 1 .. counts[i] |-> jointMap[names[Entry(i, j, "JOINT") + 1]]],
         weights |-> [j \in 1 .. counts[i] |->
                       <<Weight(i, j), SumFunction([k \in 1 .. counts[i] |-> Weight(i, k)])>>]]]

SkinnedVertices(positions, controller) ==
  LET weighted == FindFirstByTag(controller, "vertex_weights")
      counts == FindFirstByTag(weighted, "vcount").text
      v == FindFirstByTag(weighted, "v").text
      stride == CountAllByTag(weighted, "input")
      names == ArrayOf(weighted, "JOINT")
      weights == ArrayOf(weighted, "WEIGHT")
      Entry(i, j, semantic) ==
        v[stride * (SumFunction(SubSeq(counts, 1, i - 1)) + j - 1)
            + InputOf(weighted, semantic).attributes["offset"] + 1]
      Weight(i, j) == weights[Entry(i, j, "WEIGHT") + 1]
  IN  [i \in DOMAIN positions |->
        [position |-> FindFirstByTag(controller, "bind_shape_matrix").text \o positions[i],
         joints |-> [j \in 1 .. counts[i] |-> jointMap[names[Entry(i, j, "JOINT") + 1]]],
         weights |-> [j \in 1 .. counts[i] |->
                       <<Weight(i, j), SumFunction([k \in 1 .. counts[i] |-> Weight(i, k)])>>]]]

(* The corners of the triangles of one <triangles> or <polylist>, in which *)
(* a polygon counts as a triangle.  Without an input of normals a corner's *)
(* normal stays zero.                                                      *)
Corners(faces, vertex) ==
  LET stride == CountAllByTag(faces, "input")
      indices == FindFirstByTag(faces, "p").text
      normal == InputOf(faces, "NORMAL")
      IndexAt(k, input) == indices[stride * (k - 1) + input.attributes["offset"] + 1] + 1
  IN  [k \in 1 .. 3 * faces.attributes["count"] |->
        LET of == vertex[IndexAt(k, InputOf(faces, "VERTEX"))]
        IN  [position |-> of.position, joints |-> of.joints, weights |-> of.weights,
             normal |-> IF normal = None THEN "zero"
                        ELSE ArrayOf(faces, "NORMAL")[IndexAt(k, normal)]]]

(* All triangles first, and then all polygons.                             *)
ParseGeometryNode(geometry, vertex) ==
  LET faces == FindAllByTag(geometry, "triangles") \o FindAllByTag(geometry, "polylist")
  IN  FlattenSeq([k \in DOMAIN faces |-> Corners(faces[k], vertex)])

Positions(geometry) == ArrayOf(FindFirstByTag(geometry, "vertices"), "POSITION")

-----------------------------------------------------------------------------
(* init *)

Init ==
  /\ InitXml /\ step = "sources"
  /\ sources = <<>> /\ todo = <<>> /\ controllers = <<>>
  /\ matrices = <<>> /\ parents = <<>> /\ jointMap = <<>> /\ inverse = <<>>
  /\ vertices = <<>> /\ animations = <<>>
  /\ asked = <<>> /\ broken = "no"

Breaks(why) == broken' = why /\ UNCHANGED <<xmlVars, step, loaderVars, asked>>

OpenFile == ReadFile /\ UNCHANGED <<step, loaderVars, asked, broken>>
Parse == ParseXml /\ UNCHANGED <<step, loaderVars, asked, broken>>

ReadSources ==
  /\ step = "sources" /\ parsing = "ended" /\ broken = "no"
  /\ LET ArrayIn(x) == FirstOf(FindAllByTag(x, "Name_array") \o FindAllByTag(x, "float_array"))
         found == SelectSeq(FindAllByTag(root, "source"), LAMBDA x : ArrayIn(x) # None)
         Named(id) == SelectLastInSeq(found, LAMBDA x : x.attributes["id"] = id)
         first == FindFirstByTag(FindFirstByTag(root, "visual_scene"), "node")
     IN  IF root = None \/ first = None THEN Breaks("no scene")
         ELSE /\ sources' = [id \in {found[k].attributes["id"] : k \in DOMAIN found} |->
                              ArrayIn(found[Named(id)]).text]
              /\ todo' = <<[element |-> first, parent |-> 0]>>
              /\ step' = "hierarchy"
              /\ UNCHANGED <<xmlVars, controllers, matrices, parents, jointMap, inverse, vertices,
                             animations, asked, broken>>

(* One call of build_joint_hierarchy_: the joint gets the next matrix, its *)
(* children follow.  A joint without a matrix has the identity.            *)
ReadJoint ==
  /\ step = "hierarchy" /\ todo # <<>> /\ Head(todo).element.tag = "node"
  /\ LET node == Head(todo).element
         parent == Head(todo).parent
         matrix == FindFirstByPath(node, "matrix")
         joint == Len(matrices) + 1
     IN  /\ matrices' = Append(matrices, (IF parent = 0 THEN <<>> ELSE matrices[parent]) \o matrix.text)
         /\ parents' = Append(parents, parent)
         /\ jointMap' = (node.attributes["id"] :> joint) @@ jointMap
         /\ todo' = [k \in DOMAIN node.children |-> [element |-> node.children[k], parent |-> joint]]
                      \o Tail(todo)
  /\ UNCHANGED <<xmlVars, step, sources, controllers, inverse, vertices, animations, asked, broken>>

ReadInstanceGeometry ==
  /\ step = "hierarchy" /\ todo # <<>> /\ Head(todo).element.tag = "instance_geometry"
  /\ LET geometry == FindFirstByAttr(root, "id", Head(todo).element.attributes["url"])
     IN  vertices' = vertices \o
           ParseGeometryNode(geometry, HungVertices(Positions(geometry), Head(todo).parent))
  /\ todo' = Tail(todo)
  /\ UNCHANGED <<xmlVars, step, sources, controllers, matrices, parents, jointMap, inverse,
                 animations, asked, broken>>

SkipChild ==
  /\ step = "hierarchy" /\ todo # <<>>
  /\ Head(todo).element.tag \notin {"node", "instance_geometry"}
  /\ todo' = Tail(todo)
  /\ UNCHANGED <<xmlVars, step, sources, controllers, matrices, parents, jointMap, inverse, vertices,
                 animations, asked, broken>>

FindControllers ==
  /\ step = "hierarchy" /\ todo = <<>> /\ broken = "no"
  /\ IF FindFirstByPath(root, "library_controllers") = None THEN Breaks("no controllers")
     ELSE /\ controllers' = FindAllByTag(FindFirstByPath(root, "library_controllers"), "controller")
          /\ inverse' = [k \in DOMAIN matrices |-> <<>>]
          /\ step' = "skins"
          /\ UNCHANGED <<xmlVars, sources, todo, matrices, parents, jointMap, vertices, animations,
                         asked, broken>>

(* What a Vertex_t has room for.                                           *)
JointsOfVertex == 16

(* A skin: the inverse of each of its joints, and its mesh.                *)
ReadSkin ==
  /\ step = "skins" /\ controllers # <<>> /\ broken = "no"
  /\ LET controller == Head(controllers)
         weighted == FindFirstByTag(controller, "vertex_weights")
         names == ArrayOf(weighted, "JOINT")
         counts == FindFirstByTag(weighted, "vcount").text
         inverses == ArrayOf(FindFirstByTag(controller, "joints"), "INV_BIND_MATRIX")
         geometry == FindFirstByAttr(root, "id",
                       FindFirstByTag(controller, "skin").attributes["source"])
     IN  IF FindFirstByTag(controller, "bind_shape_matrix") = None THEN Breaks("no bind shape")
         ELSE IF \E i \in DOMAIN names : names[i] \notin DOMAIN jointMap THEN Breaks("no such joint")
         ELSE IF \E i \in DOMAIN counts : counts[i] > JointsOfVertex THEN Breaks("too many joints")
         ELSE /\ inverse' = [k \in DOMAIN inverse |->
                   LET i == SelectLastInSeq(names, LAMBDA x : jointMap[x] = k)
                   IN  IF i = 0 THEN inverse[k] ELSE inverses[i]]
              /\ vertices' = vertices \o
                   ParseGeometryNode(geometry, SkinnedVertices(Positions(geometry), controller))
              /\ controllers' = Tail(controllers)
              /\ UNCHANGED <<xmlVars, step, sources, todo, matrices, parents, jointMap, animations,
                             asked, broken>>

(* The times, the matrices and the joint of each animation.  Those of      *)
(* elements that are no joints are dropped.                                *)
AnimationOf(element) ==
  LET sampler == FindFirstByTag(element, "sampler")
  IN  [times |-> ArrayOf(sampler, "INPUT"), matrices |-> ArrayOf(sampler, "OUTPUT"),
       joint |-> FindFirstByTag(element, "channel").attributes["target"]]

ReadAnimations ==
  /\ step = "skins" /\ controllers = <<>> /\ broken = "no"
  /\ LET library == FindFirstByPath(root, "library_animations")
         all == [k \in DOMAIN library.children |-> AnimationOf(library.children[k])]
         ofJoints == SelectSeq(all, LAMBDA a : a.joint \in DOMAIN jointMap)
     IN  IF library = None THEN Breaks("no animations")
         ELSE /\ animations' = [k \in DOMAIN ofJoints |->
                   [ofJoints[k] EXCEPT !.joint = jointMap[@]]]
              /\ step' = "ready"
              /\ UNCHANGED <<xmlVars, sources, todo, controllers, matrices, parents, jointMap,
                             inverse, vertices, asked, broken>>

-----------------------------------------------------------------------------
(* update_joint_matrices_at *)

(* The time is taken modulo the last one of the animation.  Between two    *)
(* times it is between two matrices; outside of them it is none (the zero  *)
(* matrix), as for an animation that ends when it starts.                  *)
AnimGetAt(animation, time) ==
  LET times == animation.times
      mod == IF Last(times) = 0 THEN -1 ELSE time % Last(times)
      between == {i \in 1 .. Len(times) - 1 : times[i] <= mod /\ mod < times[i + 1]}
  IN  IF between = {} THEN <<"zero">>
      ELSE LET i == CHOOSE i \in between : TRUE
           IN  IF times[i] = mod THEN animation.matrices[i]
               ELSE <<"between">> \o animation.matrices[i] \o animation.matrices[i + 1]

(* The joint's own matrix: the last animation's, or else what is there.    *)
LocalAt(joint, time) ==
  LET last == SelectLastInSeq(animations, LAMBDA a : a.joint = joint)
  IN  IF last = 0 THEN matrices[joint] ELSE AnimGetAt(animations[last], time)

(* Mutant: children before their parent. *)
UpdateJointHierarchyUpwards(time) ==
  LET m[j \in DOMAIN matrices] ==
        IF parents[j] = 0 THEN LocalAt(j, time) ELSE matrices[parents[j]] \o LocalAt(j, time)
  IN  m

(* update_joint_hierarchy_: children after their parent.                   *)
UpdateJointHierarchy(time) ==
  LET m[j \in DOMAIN matrices] ==
        IF parents[j] = 0 THEN LocalAt(j, time) ELSE m[parents[j]] \o LocalAt(j, time)
  IN  m

UpdateJointMatricesAt ==
  /\ step = "ready" /\ Len(asked) < MaxUpdates
  /\ \E time \in Times :
       /\ matrices' = <<>> \o UpdateJointHierarchy(time)
       /\ asked' = Append(asked, time)
  /\ UNCHANGED <<xmlVars, step, sources, todo, controllers, parents, jointMap, inverse, vertices,
                 animations, broken>>

(* init has failed, or matrices have been asked for often enough.          *)
Stop == (broken # "no" \/ parsing = "beyond" \/ Len(asked) = MaxUpdates) /\ UNCHANGED vars

Next ==
  \/ OpenFile \/ Parse \/ ReadSources \/ ReadJoint \/ ReadInstanceGeometry \/ SkipChild
  \/ FindControllers \/ ReadSkin \/ ReadAnimations \/ UpdateJointMatricesAt \/ Stop

Spec == Init /\ [][Next]_vars

=============================================================================
