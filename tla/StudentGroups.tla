---------------------------- MODULE StudentGroups -----------------------------
(* LoginovaIrene's server: students in a hash of groups, each group with a     *)
(* tree by name and a list by rating; a session (a list of students) for each  *)
(* descriptor; and one object comand for everybody.  Every request is handled  *)
(* in one go by the loop of main, so that each is one action.                  *)
EXTENDS ConditionLists

CONSTANTS Pupil,  \* the students a client may insert or the file may hold
          Files,    \* what the file may hold: sequences of students
          Given,    \* conditions that a request may add, as functions from columns
          Fd,       \* descriptors the server's clients may get
          MaxConditions \* of one column that may be in force after a malformed request

ASSUME PupilAssumption ==
  /\ Pupil \subseteq [name : (Lowest + 1) .. (Highest - 1), rating : Int, group : 100 .. 699]
  /\ Files \subseteq Seq(Pupil)

(* Beyond the groups of the hash do_select reads past root; with a bound from  *)
(* Highest a sort may follow a null pointer (SortCrashes).                     *)
ASSUME GivenAssumption ==
  /\ Given \subseteq [Columns -> Seq([cond : Conds, value : {v \in Int : v < Highest}])]
  /\ \A g \in Given : \A i \in DOMAIN g["group"] : g["group"][i].value \in 100 .. 699

ASSUME FdAssumption == Fd \subseteq 0 .. 9

VARIABLES running,
          active, \* active_set, without the listener: the clients' descriptors
          root,   \* hash::root: for each index, the chain of groups
          cmd,    \* gr_root, rat_root and name_root of the only comand
          sess,   \* Database::sess
          reply   \* what the last request was answered, and to whom

groupsVars == << running, active, root, cmd, sess, reply >>

Indexes == 0 .. 5

hash_fun(group) == (group \div 100) - 1

-------------------------------------------------------------------------------
(* list::add: in front if not above the first, else before the first of the    *)
(* others that is above.                                                       *)
ListAdd(list, s) ==
  IF list = << >> \/ s.rating <= list[1].rating THEN << s >> \o list
  ELSE LET above == SelectInSeq(Tail(list), LAMBDA t : t.rating > s.rating)
       IN IF above = 0 THEN Append(list, s) ELSE InsertAt(list, above + 1, s)

(* A tree maps paths from its root to students; tree::add walks down.          *)
Side(s, t) == IF s.name > t.name THEN "right" ELSE "left"

TreePlace(tree, s) ==
  LET place[depth \in 0 .. Cardinality(DOMAIN tree)] ==
        IF depth = 0 THEN << >>
        ELSE LET path == place[depth - 1]
             IN IF path \notin DOMAIN tree \/ tree[path].name = s.name THEN path
                ELSE Append(path, Side(s, tree[path]))
  IN place[Cardinality(DOMAIN tree)]

InTree(tree, s) == TreePlace(tree, s) \in DOMAIN tree

TreeAdd(tree, s) ==
  LET place == TreePlace(tree, s)
  IN [path \in DOMAIN tree \cup {place} |-> IF path = place THEN s ELSE tree[path]]

(* hash::add: the students of a group differ in their names.                   *)
GroupOf(s) == [group |-> s.group, tree |-> [path \in {<< >>} |-> s], list |-> << s >>]

(* Mutant: the answer of the tree is not looked at.                            *)
AddToAlways(node, s) ==
  [node EXCEPT !.tree = IF InTree(@, s) THEN @ ELSE TreeAdd(@, s), !.list = ListAdd(@, s)]

AddTo(node, s) ==
  IF InTree(node.tree, s) THEN node
  ELSE [node EXCEPT !.tree = TreeAdd(@, s), !.list = ListAdd(@, s)]

ChainAdd(chain, s) ==
  LET i == SelectInSeq(chain, LAMBDA node : node.group = s.group)
  IN IF i = 0 THEN Append(chain, GroupOf(s)) ELSE [chain EXCEPT ![i] = AddTo(@, s)]

HashAdd(hash, s) == [hash EXCEPT ![hash_fun(s.group)] = ChainAdd(@, s)]

-------------------------------------------------------------------------------
(* sub_select_list: a walk through a list that increases, with the excluded    *)
(* ratings read along.                                                         *)
EqualInList(list, rating) ==
  Picked(list, {i \in DOMAIN list : list[i].rating = rating /\ \A j \in 1 .. i : list[j].rating <= rating})

RatingStep(r, walk, s) ==
  LET rest == Skip(walk.excluded, s.rating)
      hit == rest # << >> /\ Head(rest).value = s.rating
  IN IF walk.over \/ Below(r, s.rating) THEN walk
     ELSE IF Above(r, s.rating) THEN [walk EXCEPT !.over = TRUE]
     ELSE [walk EXCEPT !.excluded = rest, !.found = IF hit THEN @ ELSE Append(@, s)]

sub_select_list(list, conds) ==
  IF StartsWith(conds, {"EQ"}) THEN EqualInList(list, Head(conds).value)
  ELSE LET r == Interval(conds, Lowest, Highest)
           start == [over |-> FALSE, excluded |-> r.excluded, found |-> << >>]
           walk[n \in 0 .. Len(list)] == IF n = 0 THEN start ELSE RatingStep(r, walk[n - 1], list[n])
       IN walk[Len(list)].found

(* A recursion that visits a node, then what is on the side `first` of it, and *)
(* then the other side.                                                        *)
Before(p, q, first) ==
  \/ Len(p) < Len(q) /\ \A i \in DOMAIN p : p[i] = q[i]
  \/ \E i \in DOMAIN p \cap DOMAIN q :
       p[i] = first /\ q[i] # first /\ \A j \in 1 .. i - 1 : p[j] = q[j]

Visits(tree, paths, first) ==
  LET walk == Arranged(paths, {p \in paths \X paths : Before(p[1], p[2], first)})
  IN [i \in DOMAIN walk |-> tree[walk[i]]]

(* sub_select_tree and rec_sel_tree: the node, then what is left of it, then   *)
(* what is right; one side is left out when the node is outside the bounds.    *)
Suits(s, excluded, ratings) == NotExcluded(excluded, s.name) /\ Admits(ratings, s.rating)

Sides(r, name) ==
  IF name < r.min THEN {"right"} ELSE IF name > r.max THEN {"left"}
  ELSE IF Below(r, name) THEN {"right"} ELSE IF Above(r, name) THEN {"left"} ELSE {"left", "right"}

rec_sel_tree(tree, r, ratings) ==
  LET reached == {p \in DOMAIN tree : \A k \in DOMAIN p : p[k] \in Sides(r, tree[SubSeq(p, 1, k - 1)].name)}
      v == Visits(tree, reached, "left")
  IN Picked(v, {i \in DOMAIN v : Sides(r, v[i].name) = {"left", "right"} /\ Suits(v[i], r.excluded, ratings)})

(* Mutant: a student found by name is added without sel_rat.                   *)
EqualInTreeUnrated(tree, name, ratings) ==
  LET path == TreePlace(tree, [name |-> name])
  IN IF path \in DOMAIN tree THEN << tree[path] >> ELSE << >>

EqualInTree(tree, name, ratings) ==
  LET path == TreePlace(tree, [name |-> name])
  IN IF path \in DOMAIN tree /\ Admits(ratings, tree[path].rating) THEN << tree[path] >> ELSE << >>

sub_select_tree(tree, conds, ratings) ==
  IF StartsWith(conds, {"EQ"}) THEN EqualInTree(tree, Head(conds).value, ratings)
  ELSE rec_sel_tree(tree, Interval(conds, Lowest, Highest), ratings)

sub_select_group(node, c) ==
  IF c["name"] # << >> THEN sub_select_tree(node.tree, c["name"], c["rating"])
  ELSE sub_select_list(node.list, c["rating"])

(* do_select: the indexes from that of the lower bound to that of the upper.   *)
FromNodes(nodes, c) == FlattenSeq([i \in DOMAIN nodes |-> sub_select_group(nodes[i], c)])

do_select(c) ==
  LET conds == c["group"]
      r == Interval(conds, 100, 699)
      first == hash_fun(r.min)
      Inside(node) == /\ ~Below(r, node.group) /\ ~Above(r, node.group)
                      /\ NotExcluded(r.excluded, node.group)
      InsideOf(chain) == Picked(chain, {i \in DOMAIN chain : Inside(chain[i])})
      EqualOf(chain, group) == Picked(chain, {i \in DOMAIN chain : chain[i].group = group})
  IN IF StartsWith(conds, {"EQ"})
     THEN FromNodes(EqualOf(root[hash_fun(Head(conds).value)], Head(conds).value), c)
     ELSE FlattenSeq([k \in 1 .. hash_fun(r.max) - first + 1 |-> FromNodes(InsideOf(root[first + k - 1]), c)])

-------------------------------------------------------------------------------
(* print: of every group the list, then the tree, the right side before the    *)
(* left.                                                                       *)
rec_write(tree) == Visits(tree, DOMAIN tree, "right")

Written(hash) ==
  LET nodes == FlattenSeq([k \in 1 .. Cardinality(Indexes) |-> hash[k - 1]])
  IN FlattenSeq([i \in DOMAIN nodes |-> nodes[i].list \o rec_write(nodes[i].tree)])

-------------------------------------------------------------------------------
(* The students that an answer writes.  Of answers that write none, the words  *)
(* and the reader are left out; a client reads until "end", and goes at the    *)
(* "ent" of quit and stop.                                                     *)
ReplyWith(fd, kind, lines) == [to |-> fd, kind |-> kind, lines |-> lines]

Words == ReplyWith(CHOOSE fd \in Fd : TRUE, "words", << >>)

fill(file) ==
  LET upTo[n \in 0 .. Len(file)] == IF n = 0 THEN [i \in Indexes |-> << >>] ELSE HashAdd(upTo[n - 1], file[n])
  IN upTo[Len(file)]

GroupsInit == /\ running = TRUE /\ active = {}
        /\ \E file \in Files : root = fill(file)
        /\ cmd = [col \in Columns |-> << >>]
        /\ sess = [fd \in Fd |-> << >>]
        /\ reply = Words

(* accept gives the lowest descriptor that is free, and the session that stands*)
(* there is the last client's.                                                 *)
Connect ==
  /\ running /\ active # Fd
  /\ active' = active \cup {CHOOSE fd \in Fd \ active : \A other \in Fd \ active : fd <= other}
  /\ UNCHANGED << running, root, cmd, sess, reply >>

(* read_socket finds the client gone.                                          *)
Lost(fd) ==
  /\ running /\ fd \in active /\ active' = active \ {fd}
  /\ UNCHANGED << running, root, cmd, sess, reply >>

(* A client that goes before its answer is written whole: a write raises       *)
(* SIGPIPE, and the server has no handler for it.                              *)
Broken(fd) ==
  /\ running /\ fd \in active /\ running' = FALSE /\ active' = {}
  /\ UNCHANGED << root, cmd, sess, reply >>

(* The next line of a client, which has read the last answer to its end.       *)
Asks(fd) == running /\ fd \in active /\ UNCHANGED running

Answered(answer) == reply' = answer /\ UNCHANGED active

(* A word no case knows is answered all the same.                              *)
Unknown(fd) == Asks(fd) /\ Answered(Words) /\ UNCHANGED << root, cmd, sess >>

Quit(fd) ==
  /\ Asks(fd) /\ active' = active \ {fd} /\ reply' = Words
  /\ UNCHANGED << root, cmd, sess >>

(* main returns; the other clients read the end of the file.                   *)
stop(fd) ==
  /\ running /\ fd \in active /\ running' = FALSE /\ active' = {}
  /\ reply' = Words /\ UNCHANGED << root, cmd, sess >>

base_write(fd) ==
  /\ Asks(fd) /\ Answered(ReplyWith(fd, "printed", Written(root))) /\ UNCHANGED << root, cmd, sess >>

(* s_pr: what the session holds, whoever put it there.                         *)
sess_write(fd) ==
  /\ Asks(fd) /\ Answered(ReplyWith(fd, "session", sess[fd])) /\ UNCHANGED << root, cmd, sess >>

(* insert: whether it says "Already in base" is what Database::add, which does *)
(* not return anything, happens to leave.                                      *)
Insert(fd, s) ==
  /\ Asks(fd) /\ root' = HashAdd(root, s) /\ Answered(Words)
  /\ UNCHANGED << cmd, sess >>

(* comand::analyze: the new conditions, the last one first, then the old ones. *)
Extended(given) == [col \in Columns |-> Reverse(given[col]) \o cmd[col]]

Analyze(given) == cmd' = [col \in Columns |-> Sort(col, Extended(given)[col]).list]

Compatible(given) == \A col \in Columns : Sort(col, Extended(given)[col]).ok

select(fd, given) ==
  /\ Asks(fd) /\ Analyze(given)
  /\ IF Compatible(given)
     THEN sess' = [sess EXCEPT ![fd] = do_select(cmd')] /\ Answered(ReplyWith(fd, "selected", << >>))
     ELSE sess' = [sess EXCEPT ![fd] = << >>] /\ Answered(Words)
  /\ UNCHANGED root

(* Database::reselect *)
Fits(c, s) == /\ Admits(c["group"], s.group) /\ Admits(c["rating"], s.rating)
              /\ Admits(c["name"], s.name)

reselect(fd, given) ==
  /\ Asks(fd) /\ Analyze(given)
  /\ IF Compatible(given)
     THEN /\ sess' = [sess EXCEPT ![fd] = Picked(@, {i \in DOMAIN @ : Fits(cmd', @[i])})]
          /\ Answered(Words)
     ELSE sess' = sess /\ Answered(Words)
  /\ UNCHANGED root

(* analyze returns 1 at a word it does not know: what it has read before stays *)
(* in front of the lists, unsorted.  select has already cleared the session.   *)
Malformed(fd, given, kept) ==
  /\ Asks(fd) /\ \A col \in Columns : Len(Extended(given)[col]) <= MaxConditions
  /\ cmd' = Extended(given)
  /\ sess' = [sess EXCEPT ![fd] = kept]
  /\ Answered(Words)
  /\ UNCHANGED root

Handle(fd) ==
  \/ Unknown(fd) \/ Quit(fd) \/ stop(fd) \/ base_write(fd) \/ sess_write(fd)
  \/ \E s \in Pupil : Insert(fd, s)
  \/ \E given \in Given : \/ select(fd, given) \/ reselect(fd, given)
                          \/ Malformed(fd, given, << >>) \/ Malformed(fd, given, sess[fd])

GroupsNext == Connect \/ \E fd \in Fd : Lost(fd) \/ Broken(fd) \/ Handle(fd)

GroupsSpec == GroupsInit /\ [][GroupsNext]_groupsVars

-------------------------------------------------------------------------------
Nodes == UNION { Range(root[i]) : i \in Indexes }

Base == UNION { Range(node.list) : node \in Nodes }

(* The hash, the trees and the lists hold the same students: every group is in *)
(* the chain of its index and nowhere else, the search of its tree finds every *)
(* student of its list and the tree has no more, and the list increases.  What *)
(* print writes has every student twice, from a list and from a tree.          *)
StructuresAgree ==
  /\ \A i \in Indexes : \A j, k \in DOMAIN root[i] :
       /\ hash_fun(root[i][j].group) = i
       /\ root[i][j].group = root[i][k].group => j = k
  /\ \A node \in Nodes :
       /\ Range(node.tree) = Range(node.list)
       /\ Cardinality(DOMAIN node.tree) = Len(node.list)
       /\ \A path \in DOMAIN node.tree : TreePlace(node.tree, node.tree[path]) = path
       /\ \A s \in Range(node.list) : s.group = node.group
       /\ \A k \in 1 .. Len(node.list) - 1 : node.list[k].rating <= node.list[k + 1].rating
  /\ reply.kind = "printed" =>
       /\ \A s \in Base : Cardinality({k \in DOMAIN reply.lines : reply.lines[k] = s}) = 2
       /\ Range(reply.lines) \subseteq Base

(* Where there is no condition the walks start from bounds of their own and    *)
(* leave these out: groups 100 and 699, and in lists the ratings not above     *)
(* Lowest and not below Highest.                                               *)
OnDefaultBound(s) ==
  \/ s.group \in {100, 699}
  \/ cmd["name"] = << >> /\ ~(Lowest < s.rating /\ s.rating < Highest)

(* do_select, which walks through intervals of the hash, the trees and the     *)
(* lists, selects each student that sel_gr, sel_rat and sel_name, which        *)
(* reselect asks for one at a time, would let through, once, and no other; but *)
(* for the default bounds.  A session that a client leaves behind holds        *)
(* students of the base all the same, each once, for whoever comes next.       *)
SelectedIsAdmitted ==
  /\ \A fd \in Fd : IsInjective(sess[fd]) /\ Range(sess[fd]) \subseteq Base
  /\ reply.kind = "selected" =>
       /\ \A s \in Range(sess[reply.to]) : Fits(cmd, s)
       /\ \A s \in Base : Fits(cmd, s) /\ ~OnDefaultBound(s) => s \in Range(sess[reply.to])
===============================================================================
