----------------------------- MODULE MCCollada -----------------------------
(***************************************************************************)
(* Collada on the files that a handful of scenes are written as, and on    *)
(* every short document.                                                   *)
(*                                                                         *)
(* A scene is a record of                                                  *)
(*   joints      <<name, parent, meshes>>, each after its parent           *)
(*   meshes      name -> [positions, faces, normals, offsets]              *)
(*   skins       [mesh, joints, weights, entries, offsets, bound]          *)
(*   animations  [joint, times]                                            *)
(* and of the ways in which it is written.                                 *)
(***************************************************************************)
EXTENDS Collada

-----------------------------------------------------------------------------
(* Documents *)

Element(tag, attributes, text, children) ==
  [tag |-> tag, attributes |-> attributes, text |-> text, children |-> children]
Token(kind, name, attributes, text) ==
  [kind |-> kind, name |-> name, attributes |-> attributes, text |-> text]
Space == Token("space", "", <<>>, <<>>)

(* An element as it is written: one without text and children closes       *)
(* itself, and if the document is tidy there is white space behind it.     *)
RECURSIVE Written(_, _)
Written(element, tidy) ==
  LET Tag(kind) == Token(kind, element.tag, element.attributes, element.text)
      Bare(kind) == Token(kind, element.tag, <<>>, <<>>)
      children == FlattenSeq([k \in DOMAIN element.children |-> Written(element.children[k], tidy)])
  IN  IF element.text # <<>>
      THEN <<[Tag("open") EXCEPT !.text = <<>>], Token("text", "", <<>>, element.text), Bare("close")>>
      ELSE IF element.children = <<>> THEN IF tidy THEN <<Tag("self"), Space>> ELSE <<Tag("self")>>
      ELSE <<Tag("open")>> \o (IF tidy THEN <<Space>> ELSE <<>>) \o children \o <<Bare("close")>>

-----------------------------------------------------------------------------
(* The documents of COLLADA scenes *)

Source(id, array, text) ==
  Element("source", [id |-> id], <<>>, <<Element(array, <<>>, text, <<>>)>>)
Input(semantic, source, offset) ==
  Element("input", [semantic |-> semantic, source |-> source, offset |-> offset], <<>>, <<>>)

(* A list of indices: for each corner, or entry, one for every input.      *)
Indices(length, stride, Value(_, _)) ==
  [i \in 1 .. length * stride |-> Value(((i - 1) \div stride) + 1, (i - 1) % stride)]

GeometryOf(name, mesh) ==
  LET Id(what) == name \o what
      inputs == <<Input("VERTEX", Id("-vertices"), mesh.offsets[1])>>
                  \o (IF mesh.normals = <<>> THEN <<>>
                      ELSE <<Input("NORMAL", Id("-normals"), mesh.offsets[2])>>)
      corners == FlattenSeq(mesh.faces)
      Index(k, offset) == IF offset = mesh.offsets[1] THEN corners[k] - 1
                          ELSE corners[k] % Len(mesh.normals)
  IN  Element("geometry", [id |-> name], <<>>, <<Element("mesh", <<>>, <<>>,
        <<Source(Id("-positions"), "float_array", mesh.positions)>>
          \o (IF mesh.normals = <<>> THEN <<>>
              ELSE <<Source(Id("-normals"), "float_array", mesh.normals)>>)
          \o <<Element("vertices", [id |-> Id("-vertices")], <<>>,
                       <<Input("POSITION", Id("-positions"), 0)>>),
               Element(mesh.primitive, [count |-> Len(mesh.faces)], <<>>,
                 inputs \o <<Element("p", <<>>, Indices(Len(corners), Len(inputs), Index), <<>>)>>)>>)>>)

ControllerOf(skin) ==
  LET Id(what) == skin.mesh \o "-skin" \o what
      entries == FlattenSeq(skin.entries)
      Value(k, offset) == entries[k][IF offset = skin.offsets[1] THEN 1 ELSE 2] - 1
  IN  Element("controller", <<>>, <<>>, <<Element("skin", [source |-> skin.mesh], <<>>,
        (IF skin.bound THEN <<Element("bind_shape_matrix", <<>>, <<"bind">>, <<>>)>> ELSE <<>>) \o
        <<Source(Id("-joints"), "Name_array", skin.joints),
          Source(Id("-inverses"), "float_array", [k \in DOMAIN skin.joints |-> <<"inverse", skin.joints[k]>>]),
          Source(Id("-weights"), "float_array", skin.weights),
          Element("joints", <<>>, <<>>, <<Input("JOINT", Id("-joints"), 0),
                                           Input("INV_BIND_MATRIX", Id("-inverses"), 0)>>),
          Element("vertex_weights", <<>>, <<>>,
            <<Input("JOINT", Id("-joints"), skin.offsets[1]), Input("WEIGHT", Id("-weights"), skin.offsets[2]),
              Element("vcount", <<>>, [k \in DOMAIN skin.entries |-> Len(skin.entries[k])], <<>>),
              Element("v", <<>>, Indices(Len(entries), 2, Value), <<>>)>>)>>)>>)

AnimationElement(animation) ==
  LET Id(what) == animation.joint \o "-animation" \o what
      keys == [k \in DOMAIN animation.times |-> <<animation.joint, animation.times[k]>>]
  IN  Element("animation", <<>>, <<>>,
        <<Source(Id("-times"), "float_array", animation.times),
          Source(Id("-matrices"), "float_array", keys),
          Element("sampler", <<>>, <<>>, <<Input("INPUT", Id("-times"), 0), Input("OUTPUT", Id("-matrices"), 0)>>),
          Element("channel", [target |-> animation.joint], <<>>, <<>>)>>)

RECURSIVE NodeOf(_, _)
NodeOf(scene, j) ==
  LET joint == scene.joints[j]
      below == SelectSeq([k \in DOMAIN scene.joints |-> k], LAMBDA k : scene.joints[k][2] = j)
  IN  Element("node", [id |-> joint[1]], <<>>,
        <<Element("matrix", <<>>, <<joint[1]>>, <<>>)>>
          \o [k \in DOMAIN joint[3] |-> Element("instance_geometry", [url |-> joint[3][k]], <<>>, <<>>)]
          \o [k \in DOMAIN below |-> NodeOf(scene, below[k])])

Library(tag, elements) == Element(tag, <<>>, <<>>, elements)

DocumentOf(scene) ==
  LET names == SetToSeq(DOMAIN scene.meshes)
      geometries == Library("library_geometries",
                      [k \in DOMAIN names |-> GeometryOf(names[k], scene.meshes[names[k]])])
      visual == Library("library_visual_scenes",
                  <<Element("visual_scene", <<>>, <<>>,
                      <<NodeOf(scene, 1)>> \o [k \in DOMAIN scene.others |->
                        Element("node", [id |-> scene.others[k]], <<>>, <<>>)])>>)
      skinLibrary == Library("library_controllers",
                       [k \in DOMAIN scene.skins |-> ControllerOf(scene.skins[k])])
      animationLibrary == Library("library_animations",
                      [k \in DOMAIN scene.animations |-> AnimationElement(scene.animations[k])])
  IN  Element("COLLADA", <<>>, <<>>,
        (IF scene.visualFirst THEN <<visual, geometries>> ELSE <<geometries, visual>>)
          \o (IF "controllers" \in scene.omits THEN <<>> ELSE <<skinLibrary>>)
          \o (IF "animations" \in scene.omits THEN <<>> ELSE <<animationLibrary>>))

FileOf(scene) == <<Token("meta", "xml", <<>>, <<>>), Space>> \o Written(DocumentOf(scene), scene.tidy)

-----------------------------------------------------------------------------
(* Scenes *)

Square == [positions |-> <<<<"p1">>, <<"p2">>, <<"p3">>, <<"p4">>>>, faces |-> <<<<1, 2, 3>>, <<3, 2, 4>>>>,
           normals |-> <<<<"n1">>, <<"n2">>>>, offsets |-> <<0, 1>>, primitive |-> "triangles"]
Corner == [Square EXCEPT !.positions = <<<<"q1">>, <<"q2">>, <<"q3">>>>, !.faces = <<<<3, 1, 2>>>>,
                         !.primitive = "polylist"]

Skin == [mesh |-> "body", joints |-> <<"neck", "hips", "hand">>, weights |-> <<2, 3, 5>>,
         entries |-> <<<<<<1, 2>>>>, <<<<2, 1>>, <<3, 3>>>>, <<<<3, 2>>, <<1, 1>>, <<2, 3>>>>, <<<<2, 2>>>>>>,
         offsets |-> <<0, 1>>, bound |-> TRUE]

(* A skin whose first vertex is moved by one joint that many times.        *)
Crowded(times) == [Skin EXCEPT !.entries[1] = [k \in 1 .. times |-> <<1, (k % 3) + 1>>]]

Moving(joint, times) == [joint |-> joint, times |-> times]

(* The hips are the root; the neck and the hat's pin follow them, and so   *)
(* do the arm, which is not animated, and the hand.                        *)
Person ==
  [joints |-> <<<<"hips", 0, <<>>>>, <<"neck", 1, <<>>>>, <<"pin", 2, <<"hat">>>>,
                <<"arm", 1, <<>>>>, <<"hand", 4, <<>>>>>>,
   others |-> <<>>,
   meshes |-> [body |-> Square, hat |-> Corner],
   skins |-> <<Skin>>,
   animations |-> <<Moving("neck", <<0, 2, 4>>), Moving("light", <<0, 1>>), Moving("pin", <<0, 3>>),
                    Moving("hand", <<0, 1, 2, 3>>)>>,
   omits |-> {}, visualFirst |-> FALSE, tidy |-> TRUE]

ScenesThatLoad ==
  { Person,
    [Person EXCEPT !.visualFirst = TRUE],
    [Person EXCEPT !.meshes.body.offsets = <<1, 0>>, !.skins[1].offsets = <<1, 0>>],
    [Person EXCEPT !.meshes.hat.normals = <<>>, !.joints[4][3] = <<"hat">>],
    [Person EXCEPT !.skins = @ \o <<[Skin EXCEPT !.mesh = "hat", !.joints = <<"pin", "hips">>,
                      !.entries = <<<<<<1, 1>>>>, <<<<2, 2>>, <<1, 3>>>>, <<<<2, 3>>>>>>]>>],
    [Person EXCEPT !.skins = <<Crowded(16)>>],
    [Person EXCEPT !.skins = <<>>, !.animations = <<>>, !.others = <<"camera">>],
    [Person EXCEPT !.animations = <<Moving("hips", <<0, 4>>), Moving("arm", <<0, 1>>)>> \o @],
    [Person EXCEPT !.animations[1].times = <<1, 3>>, !.animations[3].times = <<0>>] }

(* The loader follows a null pointer in each of these, or writes beyond an *)
(* array: the tags of inputs are next to each other, a library or the      *)
(* bind_shape_matrix is left out, a skin has a joint that is below the     *)
(* second node of the scene, or a vertex has seventeen joints.             *)
ScenesThatBreak ==
  { [Person EXCEPT !.tidy = FALSE],
    [Person EXCEPT !.omits = {"controllers"}, !.skins = <<>>],
    [Person EXCEPT !.omits = {"animations"}, !.animations = <<>>],
    [Person EXCEPT !.others = <<"foot">>, !.skins[1].joints[3] = "foot"],
    [Person EXCEPT !.skins[1].bound = FALSE],
    [Person EXCEPT !.skins = <<Crowded(17)>>] }

-----------------------------------------------------------------------------
(* Every document of up to MaxTokens tokens, and what small trees are written as *)

MaxTokens == 5

(* One name is the start of another, and one is not.                       *)
Names == {"a", "ab"}
Tags == {Token(kind, name, <<>>, <<>>) : kind \in {"open", "close"}, name \in Names \cup {"b"}}
Self == Token("self", "a", <<>>, <<>>)
Text == Token("text", "", <<>>, <<"x">>)
Letter == Token("letter", "", <<>>, <<"x">>)
Cut == Token("cut", "a", <<>>, <<>>)
Meta == Token("meta", "xml", <<>>, <<>>)

(* A text of one letter differs from others only behind a self-closing     *)
(* element.                                                                *)
Blank(token) == IsText(token) \/ token.kind = "space"
ShortFiles ==
  {file \in BoundedSeq(Tags \cup {Self, Text, Letter, Space, Cut, Meta}, MaxTokens) :
     /\ \A i \in DOMAIN file : file[i] = Letter => i > 1 /\ file[i - 1] = Self
     /\ \A i \in 1 .. Len(file) - 1 : file[i] # Cut /\ ~ (Blank(file[i]) /\ Blank(file[i + 1]))}

Leaves == {Element(name, <<>>, text, <<>>) : name \in Names, text \in {<<>>, <<"x">>}}
Parents(children) == {Element(name, <<>>, <<>>, c) : name \in Names, c \in children}
Trees == Leaves \cup Parents({<<x>> : x \in Leaves} \cup {<<x, y>> : x, y \in Leaves})
           \cup Parents({<<x>> : x \in Parents({<<x>> : x \in Leaves})})

MCFiles ==
  ShortFiles \cup {Written(tree, tidy) : tree \in Trees, tidy \in BOOLEAN}
             \cup {FileOf(scene) : scene \in ScenesThatLoad \cup ScenesThatBreak}

-----------------------------------------------------------------------------
(* Properties *)

Solid(file) == SelectSeq(file, LAMBDA token : token.kind \notin {"space", "zero"})
Tidy(file) == \A i \in DOMAIN file : file[i].kind = "self" => file[i + 1].kind \in {"space", "zero"}

Writings == {[tree |-> tree, file |-> Solid(Written(tree, TRUE))] : tree \in Trees}

(* A document that is the writing of a tree is parsed to that tree, if     *)
(* every element that closes itself has white space behind it, and else it *)
(* is refused or parsed to the tree (the pointer that parse_xml_ gives     *)
(* back from a self-closing element, which is one further than others).    *)
DocumentsParse ==
  parsing = "ended" /\ document # <<>> =>
    \A writing \in Writings : Solid(document) = writing.file =>
      root = writing.tree \/ (~ Tidy(document) /\ root = None)

RECURSIVE Preorder(_)
Preorder(element) == <<element.tag>> \o FlattenSeq([k \in DOMAIN element.children |-> Preorder(element.children[k])])

IsTag(token) == token.kind \in {"open", "close", "self"}

(* The token before the i-th that is no white space and no text, and       *)
(* whether there is a text between the two.                                *)
TokenBefore(i) == SelectLastInSubSeq(document, 1, i - 1, LAMBDA x : ~ Blank(x))
TextBefore(i) == i > 1 /\ \E k \in TokenBefore(i) + 1 .. i - 1 : IsText(document[k])

(* Whether the tag starts an element.  An element with a text ends with    *)
(* the tag behind the text, and at the start of a document and behind a    *)
(* <?...?> even a closing tag starts one.                                  *)
Begins[i \in Nat] ==
  LET before == TokenBefore(i)
  IN  /\ IsTag(document[i])
      /\ \/ before = 0 \/ document[before].kind = "meta"
         \/ /\ document[i].kind # "close"
            /\ TextBefore(i) => document[before].kind = "self" \/ ~ Begins[before]

(* Whatever is in a document: if parse_xml_ makes a tree of it, or of its  *)
(* start, the tree has an element for each tag that starts one, in the     *)
(* order of the tags, and for no other tag, or it is one element without a *)
(* name when there is no tag at all.  (A tag may be taken for the closing  *)
(* one of an element whose name it only is the start of.)                  *)
NothingMisread ==
  parsing = "ended" /\ root # None /\ Len(document) <= MaxTokens + 1 =>
    LET starts == SelectSeq([i \in 1 .. at - 1 |-> i], LAMBDA i : Begins[i])
        NameAt(i) == (IF document[i].kind = "close" THEN "/" ELSE "") \o document[i].name
    IN  Preorder(root) = IF starts = <<>> THEN <<"">> ELSE [k \in DOMAIN starts |-> NameAt(starts[k])]

Loadable == {[scene |-> scene, document |-> Append(FileOf(scene), Zero)] : scene \in ScenesThatLoad}
IsLoadable == \E loadable \in Loadable : loadable.document = document
TheScene == (CHOOSE loadable \in Loadable : loadable.document = document).scene

JointsOf(scene) == DOMAIN scene.joints
JointNamed(scene, name) == CHOOSE j \in JointsOf(scene) : scene.joints[j][1] = name
IsJoint(scene, name) == \E j \in JointsOf(scene) : scene.joints[j][1] = name

(* The joints from the root to the joint.                                  *)
RECURSIVE PathTo(_, _)
PathTo(scene, j) == IF j = 0 THEN <<>> ELSE Append(PathTo(scene, scene.joints[j][2]), j)

Placed(scene, j) == [k \in DOMAIN PathTo(scene, j) |-> scene.joints[PathTo(scene, j)[k]][1]]

(* The corners of a mesh whose i-th position is followed by Follows(i).    *)
CornersOf(mesh, Vertex(_)) ==
  LET corners == FlattenSeq(mesh.faces)
  IN  [k \in DOMAIN corners |->
        Vertex(corners[k])
          @@ [normal |-> IF mesh.normals = <<>> THEN "zero"
                         ELSE mesh.normals[(corners[k] % Len(mesh.normals)) + 1]]]

HungOn(scene, name, j) ==
  LET mesh == scene.meshes[name]
      Vertex(i) == [position |-> mesh.positions[i], joints |-> <<j>>, weights |-> <<<<1, 1>>>>]
  IN  CornersOf(mesh, Vertex)

SkinnedBy(scene, skin) ==
  LET mesh == scene.meshes[skin.mesh]
      Total(i) == SumFunction([k \in DOMAIN skin.entries[i] |-> skin.weights[skin.entries[i][k][2]]])
      Vertex(i) ==
        [position |-> <<"bind">> \o mesh.positions[i],
         joints |-> [k \in DOMAIN skin.entries[i] |-> JointNamed(scene, skin.joints[skin.entries[i][k][1]])],
         weights |-> [k \in DOMAIN skin.entries[i] |-> <<skin.weights[skin.entries[i][k][2]], Total(i)>>]]
  IN  CornersOf(mesh, Vertex)

(* A tidy scene with its libraries, whose first node has all the joints    *)
(* that its skins name, at most sixteen for a vertex, is loaded: no call   *)
(* of parse_xml_ fails and nothing is read that is not there; and no other *)
(* scene is taken for loaded.  Then, whichever way its document is laid    *)
(* out: each joint is where the matrices from the root to it put it; a joint    *)
(* that a skin moves has that skin's inverse; each corner of each face has *)
(* its position, its normal, and the joints and weights of its vertex; and *)
(* the animations of joints are those, with their joints (Dae_loader_t::   *)
(* init: entries of several inputs and of vertices with different numbers  *)
(* of joints are told apart by offsets and counts in other elements).      *)
LoadsTheScene ==
  /\ IsLoadable => broken = "no" /\ parsing # "beyond" /\ (parsing = "ended" => root # None)
  /\ step = "ready" => IsLoadable
  /\ step = "ready" /\ asked = <<>> =>
    LET scene == TheScene
    IN
      /\ matrices = [j \in JointsOf(scene) |-> Placed(scene, j)]
      /\ inverse = [j \in JointsOf(scene) |->
           LET name == scene.joints[j][1]
           IN  IF \E k \in DOMAIN scene.skins : name \in Range(scene.skins[k].joints)
               THEN <<"inverse", name>> ELSE <<>>]
      /\ vertices =
           FlattenSeq([j \in JointsOf(scene) |->
             FlattenSeq([k \in DOMAIN scene.joints[j][3] |-> HungOn(scene, scene.joints[j][3][k], j)])])
           \o FlattenSeq([k \in DOMAIN scene.skins |-> SkinnedBy(scene, scene.skins[k])])
      /\ animations =
           LET moved == SelectSeq(scene.animations, LAMBDA a : IsJoint(scene, a.joint))
           IN  [k \in DOMAIN moved |->
                 [joint |-> JointNamed(scene, moved[k].joint), times |-> moved[k].times,
                  matrices |-> [i \in DOMAIN moved[k].times |-> <<moved[k].joint, moved[k].times[i]>>]]]

(* What an animation that starts at 0 puts its joint at.                   *)
KeyedAt(animation, time) ==
  LET t == time % Last(animation.times)
      i == CHOOSE i \in DOMAIN animation.times : animation.times[i] <= t /\ t < animation.times[i + 1]
      Key(k) == <<animation.joint, animation.times[k]>>
  IN  IF t = animation.times[i] THEN Key(i) ELSE <<"between">> \o Key(i) \o Key(i + 1)

(* However often matrices were asked for before: a joint that is animated, *)
(* as are all between it and the root, is where the animations put the     *)
(* joints from the root to it at the time asked for last, and only that    *)
(* (update_joint_matrices_at works on the matrices of the last call).      *)
JointsFollowParents ==
  asked # <<>> =>
      LET scene == TheScene
          Moved(j) == SelectInSeq(scene.animations, LAMBDA a : a.joint = scene.joints[j][1])
          Starts(j) == Moved(j) # 0 /\ scene.animations[Moved(j)].times[1] = 0
                                    /\ Last(scene.animations[Moved(j)].times) > 0
          At(j) == IF Moved(j) = 0 THEN <<scene.joints[j][1]>>
                   ELSE KeyedAt(scene.animations[Moved(j)], Last(asked))
      IN  \A j \in JointsOf(scene) :
            (\A i \in Range(PathTo(scene, j)) : Starts(i) \/ (i = 1 /\ Moved(i) = 0))
              => matrices[j] = FlattenSeq([k \in DOMAIN PathTo(scene, j) |-> At(PathTo(scene, j)[k])])

=============================================================================
