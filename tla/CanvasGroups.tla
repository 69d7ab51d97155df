---------------------------- MODULE CanvasGroups ----------------------------
(***************************************************************************)
(* What is on the canvas of a workflow: nodes, the groups they form and    *)
(* the wires between them, as canvas/[id]/canvas-client-page.tsx and       *)
(* canvas/utils/{canvas-custom-node,canvas-agent-ops}.ts change them.  An  *)
(* image drawn several times over is the root of the group of its results, *)
(* a custom node the root of the images dropped on it; a group is kept at  *)
(* both ends, batchChildIds at the root and batchRootId at the image.      *)
(* Chains of requests (a generation, a second try, a crop) go on while the *)
(* canvas is edited, and apply their answers to the nodes of that time.    *)
(*                                                                         *)
(* Node and wire are changed by one event at a time.  History, saving and  *)
(* the preview of the assistant are CanvasEditor's; a "config" node is   *)
(* the one kind here that is neither an image nor custom: texts, videos    *)
(* and models are left out.                                                *)
(***************************************************************************)
EXTENDS Naturals, FiniteSets, Sequences

CONSTANTS
  Pics, NoPic,    (* pictures, each with the file that keeps it             *)
  Given,          (* nodes of the workflow when it is opened                *)
  CountBound,     (* bound: images asked for at once                        *)
  IdBound,        (* bound: nodes ever created                              *)
  OpBound         (* bound: things the user does                            *)

ASSUME NoPicAssumption == NoPic \notin Pics
ASSUME GivenAssumption == Given \in Nat /\ IdBound \in Nat /\ Given <= IdBound
ASSUME OpAssumption == OpBound \in Nat /\ CountBound \in Nat

VARIABLES
  nodes,          (* by id; ids are not used again                          *)
  wires,          (* from, to                                               *)
  jobs,           (* handleGenerateNode in image mode                       *)
  tries,          (* nodes an answer is awaited for by handleRetryNode or   *)
                  (* generateAngleNode                                      *)
  crops,          (* images being cropped                                   *)
  made, asked,    (* counted for the bounds                                 *)
  (* history, what has happened of                                          *)
  (*   parted   one end of a group forgot it: an image was replaced by an   *)
  (*            upload, drawn anew in place, or changed by the assistant    *)
  (*   picked   a group got its main image while it was drawn               *)
  (*   redrawn  the main image of a group, or the root of one that has such, *)
  (*            was drawn again                                             *)
  (*   plucked  an image was taken from a collapsed group, or deleted by    *)
  (*            the assistant while its group stays                         *)
  slips

chainVars == <<jobs, tries, crops>>
vars == <<nodes, wires, chainVars, made, asked, slips>>

None == 0
Ids == 1..IdBound
Pictures == Pics \cup {NoPic}
Kinds == {"image", "custom", "config"}
(* pic and file are content and storageKey; rooted, root, kids, main and    *)
(* open are isBatchRoot, batchRootId, batchChildIds, primaryImageId and    *)
(* imageBatchExpanded.  An image lists its results in the order of their   *)
(* ids.                                                                    *)
Node == [kind : Kinds, pic : Pictures, file : Pictures, status : {"idle", "loading", "error"},
         rooted : BOOLEAN, root : Ids \cup {None}, kids : SUBSET Ids, main : Ids \cup {None},
         open : BOOLEAN]
Blank(kind) ==
  [kind |-> kind, pic |-> NoPic, file |-> NoPic, status |-> "idle", rooted |-> (kind = "custom"),
   root |-> None, kids |-> {}, main |-> None, open |-> FALSE]
Picture(p) == [Blank("image") EXCEPT !.pic = p, !.file = p]
(* A generation: its source and what that was, the node its results are     *)
(* shown in first, those not answered yet, whether one was.                *)
Job == [source : Ids, of : {"config", "image", "empty"}, at : {"asked", "drawing"},
        root : Ids \cup {None}, left : SUBSET Ids, won : BOOLEAN]

Init ==
  /\ nodes \in [1..Given -> {Blank(k) : k \in Kinds} \cup {Picture(p) : p \in Pics}]
  /\ wires = {} /\ jobs = {} /\ tries = {} /\ crops = {}
  /\ made = Given /\ asked = 0 /\ slips = {}

Asked == asked < OpBound /\ asked' = asked + 1
Fresh(n) == made + n <= IdBound /\ made' = made + n

Added(f, g) == [i \in DOMAIN f \cup DOMAIN g |-> IF i \in DOMAIN g THEN g[i] ELSE f[i]]
First(S) == CHOOSE i \in S : \A j \in S : i <= j
Cut(S) == {w \in wires : w[1] \notin S /\ w[2] \notin S}

(* isHiddenBatchChild *)
Hidden(i) == nodes[i].root \in DOMAIN nodes /\ ~nodes[nodes[i].root].open
Kids(S) == UNION {nodes[i].kids : i \in S}

(* Whether a group loses an end when i forgets its own. *)
Parted(i) ==
  IF i \in DOMAIN nodes /\ (nodes[i].root \in DOMAIN nodes \/ nodes[i].kids # {})
  THEN {"parted"} ELSE {}
Redrawn(i) ==
  IF \E r \in DOMAIN nodes : nodes[r].main # None /\ i \in {r, nodes[r].main} THEN {"redrawn"} ELSE {}
Picked(f) ==
  IF \E j \in jobs : j.root \in DOMAIN nodes \cap DOMAIN f /\ f[j.root].main # nodes[j.root].main
  THEN {"picked"} ELSE {}
Plucked(S) ==
  IF \E i \in S : Hidden(i) /\ nodes[i].root \notin S THEN {"plucked"} ELSE {}

-----------------------------------------------------------------------------
(* Nodes and wires *)

(* normalizeConnection: a wire runs into a config node, whichever end it    *)
(* was drawn from; two config nodes are not connected.                     *)
Wire(a, ka, b, kb, handle) ==
  IF ka = "config" /\ kb = "config" THEN {}
  ELSE IF kb # "config" /\ handle = "target" THEN {<<b, a>>}
  ELSE {<<a, b>>}

Create(kind) ==
  /\ Asked /\ Fresh(1)
  /\ nodes' = Added(nodes, [i \in {made'} |-> Blank(kind)])
  /\ UNCHANGED <<wires, chainVars, slips>>

ConnectNodes(a, b, handle) ==
  /\ Asked
  /\ a # b
  /\ wires' = wires \cup Wire(a, nodes[a].kind, b, nodes[b].kind, handle)
  /\ UNCHANGED <<nodes, chainVars, made, slips>>

CreateConnected(a, kind, handle) ==
  /\ Asked /\ Fresh(1)
  /\ Wire(a, nodes[a].kind, made', kind, handle) # {}
  /\ nodes' = Added(nodes, [i \in {made'} |-> Blank(kind)])
  /\ wires' = wires \cup Wire(a, nodes[a].kind, made', kind, handle)
  /\ UNCHANGED <<chainVars, slips>>

(* A fault to be caught: the file stays that of the image deleted. *)
Bereft_File(f, i, gone) ==
  LET rest == f[i].kids \ gone
      main == IF f[i].main \in rest THEN f[i].main ELSE IF rest = {} THEN None ELSE First(rest)
      it == IF main \in DOMAIN f \ gone THEN f[main] ELSE f[i]
  IN [f[i] EXCEPT !.kids = rest, !.main = main, !.pic = IF it.pic # NoPic THEN it.pic ELSE @]

(* A root without some of its images shows the main one of the rest.  While *)
(* that has no picture yet it goes on showing the old one, without a file. *)
Bereft(f, i, gone) ==
  LET rest == f[i].kids \ gone
      main == IF f[i].main \in rest THEN f[i].main ELSE IF rest = {} THEN None ELSE First(rest)
      it == IF main \in DOMAIN f \ gone THEN f[main] ELSE f[i]
  IN [f[i] EXCEPT !.kids = rest, !.main = main,
                  !.pic = IF it.pic # NoPic THEN it.pic ELSE @, !.file = it.file]

DeleteNodes(S) ==
  LET all == S \cup Kids(S)
  IN /\ Asked
     /\ nodes' =
          [i \in DOMAIN nodes \ all |->
             IF ~nodes[i].rooted \/ nodes[i].kids \cap all = {} THEN nodes[i]
             ELSE IF nodes[i].kind = "custom" THEN [nodes[i] EXCEPT !.kids = @ \ all]
             ELSE Bereft(nodes, i, all)]
     /\ wires' = Cut(all)
     /\ slips' = slips \cup Picked(nodes') \cup Plucked(all \cap DOMAIN nodes)
     /\ UNCHANGED <<chainVars, made>>

DeleteWire(w) ==
  /\ Asked
  /\ wires' = wires \ {w}
  /\ UNCHANGED <<nodes, chainVars, made, slips>>

(* copyNodeMetadata: what is copied with it keeps its place, m maps it to   *)
(* its copy; the rest of its group is not the copy's.                      *)
(* A fault to be caught: the copy goes on listing the images of the group. *)
CopyOf_Sharing(node, m) ==
  [node EXCEPT !.root = IF @ \in DOMAIN m THEN m[@] ELSE None,
               !.main = IF @ \in DOMAIN m THEN m[@] ELSE None,
               !.status = IF @ = "loading" THEN "idle" ELSE @]
(* A fault to be caught: the copy of an open group is closed. *)
CopyOf_Closed(node, m) ==
  LET kids == {m[i] : i \in node.kids \cap DOMAIN m}
  IN [node EXCEPT !.rooted = @ /\ kids # {}, !.kids = kids, !.open = FALSE,
                  !.root = IF @ \in DOMAIN m THEN m[@] ELSE None,
                  !.main = IF @ \in DOMAIN m THEN m[@] ELSE None,
                  !.status = IF @ = "loading" THEN "idle" ELSE @]
CopyOf(node, m) ==
  LET kids == {m[i] : i \in node.kids \cap DOMAIN m}
  IN [node EXCEPT !.rooted = @ /\ kids # {}, !.kids = kids, !.open = @ /\ kids # {},
                  !.root = IF @ \in DOMAIN m THEN m[@] ELSE None,
                  !.main = IF @ \in DOMAIN m THEN m[@] ELSE None,
                  !.status = IF @ = "loading" THEN "idle" ELSE @]

DuplicateNode(i) ==
  /\ Asked /\ Fresh(1)
  /\ nodes' = Added(nodes, [k \in {made'} |-> CopyOf(nodes[i], [s \in {i} |-> made'])])
  /\ UNCHANGED <<wires, chainVars, slips>>

(* Which copy is whose: they are made in the order of the originals. *)
Copies(all, new) ==
  {m \in [all -> new] : /\ \A i, j \in all : i < j => m[i] < m[j]
                        /\ \A k \in new : \E i \in all : m[i] = k}

(* Copied and pasted: the clipboard keeps nothing of the canvas but what    *)
(* pasting maps to copies, so it may as well be filled then.               *)
Paste(S) ==
  LET all == (S \cup Kids(S)) \cap DOMAIN nodes
      within == {w \in wires : w[1] \in all /\ w[2] \in all}
  IN /\ Asked /\ Fresh(Cardinality(all))
     /\ \E m \in Copies(all, (made + 1)..made') :
          /\ nodes' = Added(nodes, [k \in (made + 1)..made' |->
                                      CopyOf(nodes[CHOOSE i \in all : m[i] = k], m)])
          /\ wires' = wires \cup {<<m[w[1]], m[w[2]]>> : w \in within}
     /\ UNCHANGED <<chainVars, slips>>

-----------------------------------------------------------------------------
(* Groups *)

(* A fault to be caught: the image stays listed where it was. *)
Moved_Listed(f, S, target) ==
  [i \in DOMAIN f |->
     IF i \in S THEN [f[i] EXCEPT !.root = target]
     ELSE IF i = target
     THEN [f[i] EXCEPT !.rooted = TRUE, !.open = FALSE, !.kids = @ \cup S]
     ELSE f[i]]

(* moveCanvasImages: into the group of a node, or of none.  An image that   *)
(* loses results shows the main one of the rest, or nothing.               *)
Moved(f, S, target) ==
  [i \in DOMAIN f |->
     IF i \in S THEN [f[i] EXCEPT !.root = target]
     ELSE IF i = target
     THEN [f[i] EXCEPT !.rooted = TRUE, !.open = FALSE, !.kids = @ \cup S]
     ELSE IF f[i].kids \cap S = {} THEN f[i]
     ELSE IF f[i].kind = "custom" THEN [f[i] EXCEPT !.kids = @ \ S]
     ELSE LET rest == f[i].kids \ S
              first == IF f[i].main \in rest THEN f[i].main ELSE IF rest = {} THEN None ELSE First(rest)
              main == IF first \in DOMAIN f THEN first ELSE None
              it == IF main = None THEN Blank("image") ELSE f[main]
          IN [f[i] EXCEPT !.rooted = (rest # {}), !.kids = rest, !.main = main,
                          !.pic = it.pic, !.file = it.file]]

(* Files chosen or dropped, each an image of its own, or on a custom node;  *)
(* several on the empty canvas get a custom node of their own.             *)
AddImages(pics, target) ==
  LET n == Len(pics)
      grouped == target = None /\ n > 1
      new == [i \in (made + 1)..(made + n) |-> Picture(pics[i - made])]
      group == [i \in (IF grouped THEN {made'} ELSE {}) |-> Blank("custom")]
  IN /\ Asked /\ Fresh(IF grouped THEN n + 1 ELSE n)
     /\ nodes' = Moved(Added(nodes, Added(new, group)), DOMAIN new,
                       IF grouped THEN made' ELSE target)
     /\ UNCHANGED <<wires, chainVars, slips>>

(* Nodes dragged onto a custom node: their images join it, but for those    *)
(* whose group moves with them.                                            *)
DropOn(S, target) ==
  LET dragged == (S \cup Kids(S)) \cap DOMAIN nodes
      joining == {i \in dragged : /\ nodes[i].kind = "image" /\ nodes[i].pic # NoPic
                                  /\ ~nodes[i].rooted /\ nodes[i].root \notin dragged}
  IN /\ Asked
     /\ nodes[target].kind = "custom" /\ target \notin dragged
     /\ nodes' = Moved(nodes, joining, target)
     /\ wires' = wires \ {<<nodes[i].root, i>> : i \in joining}
     /\ slips' = slips \cup Picked(nodes') \cup Plucked(joining)
     /\ UNCHANGED <<chainVars, made>>

(* An image dragged out of a custom node, onto another or onto the canvas.  *)
DragOut(i, target) ==
  /\ Asked
  /\ \E g \in DOMAIN nodes : nodes[g].kind = "custom" /\ i \in nodes[g].kids
  /\ nodes[i].kind = "image" /\ nodes[i].root # target
  /\ target # None => nodes[target].kind = "custom"
  /\ nodes' = Moved(nodes, {i}, target)
  /\ wires' = wires \ {<<nodes[i].root, i>>}
  /\ UNCHANGED <<chainVars, made, slips>>

(* By the button on a stack of two or more; also to show the user an input  *)
(* of a node that is hidden in one.                                        *)
Stacked(r) == nodes[r].kind = "image" /\ nodes[r].rooted /\ Cardinality(nodes[r].kids) > 1
ToggleBatch(r) ==
  /\ Asked
  /\ nodes[r].kind = "image"
  /\ \/ Stacked(r)
     \/ \E i \in DOMAIN nodes : nodes[i].root = r /\ Hidden(i) /\ \E w \in wires : w[1] = i
  /\ nodes' = [nodes EXCEPT ![r].open = ~@]
  /\ UNCHANGED <<wires, chainVars, made, slips>>

(* A fault to be caught: the root names its main image and shows the other. *)
Showing_Other(r, i) == [nodes[r] EXCEPT !.main = i]
Showing(r, i) == [nodes[r] EXCEPT !.pic = nodes[i].pic, !.file = nodes[i].file, !.main = i]

SetBatchPrimary(i) ==
  /\ Asked
  /\ nodes[i].kind = "image" /\ nodes[i].pic # NoPic
  /\ nodes[i].root \in DOMAIN nodes /\ ~Hidden(i)
  /\ nodes' = [nodes EXCEPT ![nodes[i].root] = Showing(nodes[i].root, i)]
  /\ slips' = slips \cup Picked(nodes')
  /\ UNCHANGED <<wires, chainVars, made>>

(* A file uploaded for an image: it is not of a group any more, though its  *)
(* group goes on listing it and its results go on naming it.               *)
ReplaceImage(i, p) ==
  /\ Asked
  /\ nodes[i].kind = "image"
  /\ nodes' = [nodes EXCEPT ![i] = Picture(p)]
  /\ slips' = slips \cup Parted(i)
  /\ UNCHANGED <<wires, chainVars, made>>

-----------------------------------------------------------------------------
(* Generations *)

(* A node that is there no more is not changed. *)
At(i, node) == IF i \in DOMAIN nodes THEN [nodes EXCEPT ![i] = node] ELSE nodes
Status(i, status) == At(i, [nodes[i] EXCEPT !.status = status])

(* handleGenerateNode: the references are gathered before anything is put   *)
(* on the canvas.  What the source was then is remembered.                 *)
Generate(s) ==
  /\ Asked
  /\ nodes[s].kind # "custom"
  /\ \A j \in jobs : j.source # s
  /\ jobs' = jobs \cup {[source |-> s, at |-> "asked", root |-> None, left |-> {}, won |-> FALSE,
                         of |-> IF nodes[s].kind = "config" THEN "config"
                                ELSE IF nodes[s].pic = NoPic THEN "empty" ELSE "image"]}
  /\ nodes' = IF nodes[s].kind = "config" THEN Status(s, "loading") ELSE nodes
  /\ UNCHANGED <<wires, tries, crops, made, slips>>

GatherFails(j) ==
  /\ j \in jobs /\ j.at = "asked"
  /\ jobs' = jobs \ {j}
  /\ nodes' = IF j.of = "config" THEN Status(j.source, "error") ELSE nodes
  /\ UNCHANGED <<wires, tries, crops, made, asked, slips>>

(* count results: in the empty image itself, or in a new one; several in a  *)
(* group of it.  Of an empty image all but the group stays as it was.      *)
LayOut(j, count) ==
  LET empty == j.of = "empty"
      root == IF empty THEN j.source ELSE made + 1
      rest == IF empty THEN made ELSE made + 1
      last == IF count = 1 THEN rest ELSE rest + count
      kids == (rest + 1)..last
      Drawn(n) == [n EXCEPT !.status = "loading", !.rooted = (count > 1), !.kids = kids,
                            !.open = (count > 1)]
      child == [Blank("image") EXCEPT !.status = "loading", !.root = root]
      new == [i \in kids \cup ({root} \ {j.source}) |->
                IF i = root THEN Drawn(Blank("image")) ELSE child]
  IN /\ j \in jobs /\ j.at = "asked"
     /\ Fresh(last - made)
     /\ nodes' = Added(At(j.source, IF empty THEN Drawn(nodes[j.source])
                                    ELSE [nodes[j.source] EXCEPT !.status =
                                            IF j.of = "config" THEN "loading" ELSE "idle"]), new)
     /\ wires' = wires \cup (IF empty THEN {} ELSE {<<j.source, root>>}) \cup ({root} \X kids)
     /\ jobs' = (jobs \ {j}) \cup {[j EXCEPT !.at = "drawing", !.root = root,
                                            !.left = IF count = 1 THEN {root} ELSE kids]}
     /\ slips' = slips \cup (IF empty THEN Parted(j.source) ELSE {})
     /\ UNCHANGED <<tries, crops, asked>>

(* The root shows what is answered first, or what is its own. *)
ShownFirst(root, t) ==
  root \in DOMAIN nodes /\ (t = root \/ nodes[root].main = None)

Result(j, t, p) ==
  /\ j \in jobs /\ t \in j.left
  /\ jobs' = (jobs \ {j}) \cup {[j EXCEPT !.left = @ \ {t}, !.won = TRUE]}
  /\ nodes' = [i \in DOMAIN nodes |->
                 LET n == nodes[i]
                     pictured == [n EXCEPT !.pic = p, !.file = p, !.status = "idle"]
                 IN IF i = j.root /\ ShownFirst(j.root, t) THEN [pictured EXCEPT !.main = t]
                    ELSE IF i = t THEN pictured
                    ELSE IF i = j.source /\ j.of = "config" THEN [n EXCEPT !.status = "idle"]
                    ELSE n]
  /\ slips' = slips \cup Redrawn(t)
  /\ UNCHANGED <<wires, tries, crops, made, asked>>

ResultFails(j, t) ==
  /\ j \in jobs /\ t \in j.left
  /\ jobs' = (jobs \ {j}) \cup {[j EXCEPT !.left = @ \ {t}]}
  /\ nodes' = Status(t, "error")
  /\ UNCHANGED <<wires, tries, crops, made, asked, slips>>

(* A fault to be caught: the end of a batch is not noted. *)
Ended_Unsaid(j) == nodes
(* All have ended: the source says whether one of them did well, and a root *)
(* without a result that none did.                                         *)
Ended(j) ==
  [i \in DOMAIN nodes |->
     IF i = j.source /\ j.of \in {"config", "empty"}
     THEN [nodes[i] EXCEPT !.status = IF j.won THEN "idle" ELSE "error"]
     ELSE IF i = j.root /\ ~j.won THEN [nodes[i] EXCEPT !.status = "error"] ELSE nodes[i]]

EndJob(j) ==
  /\ j \in jobs /\ j.at = "drawing" /\ j.left = {}
  /\ jobs' = jobs \ {j}
  /\ nodes' = Ended(j)
  /\ UNCHANGED <<wires, tries, crops, made, asked, slips>>

(* handleRetryNode, also of a config node, which becomes the image.         *)
Retry(i) ==
  /\ Asked
  /\ nodes[i].status = "error"
  /\ tries' = tries \cup {i}
  /\ nodes' = Status(i, "loading")
  /\ UNCHANGED <<wires, jobs, crops, made, slips>>

TryDone(i, p) ==
  /\ i \in tries /\ tries' = tries \ {i}
  /\ nodes' = At(i, [nodes[i] EXCEPT !.kind = "image", !.pic = p, !.file = p, !.status = "idle"])
  /\ slips' = slips \cup Redrawn(i)
  /\ UNCHANGED <<wires, jobs, crops, made, asked>>
TryFails(i) ==
  /\ i \in tries /\ tries' = tries \ {i}
  /\ nodes' = Status(i, "error")
  /\ UNCHANGED <<wires, jobs, crops, made, asked, slips>>

(* generateAngleNode: the node is there before its picture.                 *)
Angle(i) ==
  /\ Asked /\ Fresh(1)
  /\ nodes[i].kind = "image" /\ nodes[i].pic # NoPic
  /\ nodes' = Added(nodes, [k \in {made'} |-> [Blank("image") EXCEPT !.status = "loading"]])
  /\ wires' = wires \cup {<<i, made'>>}
  /\ tries' = tries \cup {made'}
  /\ UNCHANGED <<jobs, crops, slips>>

(* cropImageNode: the picture is uploaded before there is a node.           *)
Crop(i) ==
  /\ Asked
  /\ nodes[i].kind = "image" /\ nodes[i].pic # NoPic
  /\ crops' = crops \cup {i}
  /\ UNCHANGED <<nodes, wires, jobs, tries, made, slips>>
Cropped(i, p) ==
  /\ i \in crops /\ crops' = crops \ {i}
  /\ Fresh(1)
  /\ nodes' = Added(nodes, [k \in {made'} |-> Picture(p)])
  /\ wires' = wires \cup {<<i, made'>>}
  /\ UNCHANGED <<jobs, tries, asked, slips>>

-----------------------------------------------------------------------------
(* What the assistant asks for, when the user has confirmed it             *)

(* Of what an image holds only texts and settings are kept: neither its     *)
(* picture nor its group.  Groups of custom nodes are kept.                *)
AgentUpdate(i) ==
  /\ Asked
  /\ nodes[i].kind = "image"
  /\ nodes' = At(i, [Blank("image") EXCEPT !.status = nodes[i].status])
  /\ slips' = slips \cup Parted(i)
  /\ UNCHANGED <<wires, chainVars, made>>

(* Only the nodes named, and their wires. *)
AgentDelete(S) ==
  /\ Asked
  /\ nodes' = [i \in DOMAIN nodes \ S |-> nodes[i]]
  /\ wires' = Cut(S)
  /\ slips' = slips \cup (IF \E i \in S : nodes[i].root \in DOMAIN nodes \ S THEN {"plucked"} ELSE {})
  /\ UNCHANGED <<chainVars, made>>

AgentConnect(a, b) ==
  /\ Asked
  /\ a # b
  /\ wires' = wires \cup {<<a, b>>}
  /\ UNCHANGED <<nodes, chainVars, made, slips>>

-----------------------------------------------------------------------------
Edit ==
  LET There == DOMAIN nodes
  IN \/ \E k \in Kinds : Create(k)
     \/ \E a, b \in There, h \in {"source", "target"} : ConnectNodes(a, b, h)
     \/ \E a \in There, k \in Kinds, h \in {"source", "target"} : CreateConnected(a, k, h)
     \/ \E S \in (SUBSET There) \ {{}} : DeleteNodes(S) \/ Paste(S)
     \/ \E w \in wires : DeleteWire(w)
     \/ \E i \in There : DuplicateNode(i)
Group ==
  LET There == DOMAIN nodes
      customs == {i \in There : nodes[i].kind = "custom"}
  IN \/ \E n \in 1..CountBound : \E pics \in [1..n -> Pics], t \in customs \cup {None} :
           AddImages(pics, t)
     \/ \E S \in (SUBSET There) \ {{}}, t \in customs : DropOn(S, t)
     \/ \E i \in There, t \in customs \cup {None} : DragOut(i, t)
     \/ \E i \in There : ToggleBatch(i) \/ SetBatchPrimary(i)
     \/ \E i \in There, p \in Pics : ReplaceImage(i, p)
Draw == \E i \in DOMAIN nodes : Generate(i) \/ Retry(i) \/ Angle(i) \/ Crop(i)
Answers ==
  \/ \E j \in jobs : GatherFails(j) \/ EndJob(j)
  \/ \E j \in jobs, n \in 1..CountBound : LayOut(j, n)
  \/ \E j \in jobs : \E t \in j.left : ResultFails(j, t) \/ \E p \in Pics : Result(j, t, p)
  \/ \E i \in tries : TryFails(i) \/ \E p \in Pics : TryDone(i, p)
  \/ \E i \in crops, p \in Pics : Cropped(i, p)
Agent ==
  LET There == DOMAIN nodes
  IN \/ \E i \in There : AgentUpdate(i)
     \/ \E S \in (SUBSET There) \ {{}} : AgentDelete(S)
     \/ \E a, b \in There : AgentConnect(a, b)
Next == Edit \/ Group \/ Draw \/ Answers \/ Agent

Spec == Init /\ [][Next]_vars

-----------------------------------------------------------------------------
(* Properties *)

TypeOK ==
  /\ DOMAIN nodes \subseteq 1..made /\ nodes \in [DOMAIN nodes -> Node]
  /\ wires \subseteq Ids \X Ids
  /\ jobs \subseteq Job /\ tries \subseteq Ids /\ crops \subseteq Ids
  /\ made \in 0..IdBound /\ asked \in 0..OpBound
  /\ slips \subseteq {"parted", "picked", "redrawn", "plucked"}

(* docs/canvas-data-structure.md:75: a node never keeps the file of another *)
(* picture than it shows, however its main image was chosen, deleted or    *)
(* moved away.                                                             *)
FileIsOfPicture == \A i \in DOMAIN nodes : nodes[i].file \in {NoPic, nodes[i].pic}

(* An image is listed by one group at most, whatever is moved, copied,      *)
(* replaced or drawn: deleting a group deletes no image of another.        *)
InOneGroup ==
  \A r, q \in DOMAIN nodes : r # q => nodes[r].kids \cap nodes[q].kids = {}

(* docs/pending-test.md:55: both ends of a group agree, of a copied one     *)
(* too, and the copy of a single node has no part in the group.            *)
GroupsAgree ==
  "parted" \notin slips =>
    \A i, r \in DOMAIN nodes : nodes[i].root = r <=> i \in nodes[r].kids

(* A node that shows it is being drawn is: an answer is still to come for   *)
(* it, of a batch, of another try, or of the batch it is the root of.      *)
LoadingIsAwaited ==
  "picked" \notin slips =>
    \A i \in DOMAIN nodes : nodes[i].status = "loading" =>
      i \in tries \/ \E j \in jobs : i \in {j.source, j.root} \cup j.left

(* docs/features.md:51: all results of a group can be looked at.  An image  *)
(* that is hidden is shown by its custom node, or by opening its stack.    *)
HiddenCanBeShown ==
  slips \cap {"parted", "plucked"} = {} =>
    \A i \in DOMAIN nodes : Hidden(i) =>
      LET r == nodes[i].root IN i \in nodes[r].kids /\ (nodes[r].kind = "custom" \/ Stacked(r))

(* docs/canvas-data-structure.md:75: the root of a group shows its main     *)
(* image, also when that was chosen for a deleted one.                     *)
MainIsShown ==
  slips \cap {"parted", "redrawn"} = {} =>
    \A r \in DOMAIN nodes :
      LET main == nodes[r].main
      IN main \in nodes[r].kids \cap DOMAIN nodes /\ nodes[main].pic # NoPic
           => nodes[r].pic = nodes[main].pic
=============================================================================
