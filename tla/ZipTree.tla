------------------------------ MODULE ZipTree ------------------------------
(***************************************************************************)
(* The zip tree (deps/ziptree.c), pointer by pointer, as timer.c uses it   *)
(* for the entries sorted by time: UA_Timer_process splits off the entries *)
(* that are due and visits them with ZIP_ITER, and the callbacks add,      *)
(* modify and remove entries meanwhile.  UA_Timer_add and the others run   *)
(* to their ends, so each is one step.                                     *)
(*                                                                         *)
(* An entry is its address, a number.  The rank of an entry is the hash of *)
(* its address, so any order may occur.                                    *)
(***************************************************************************)
EXTENDS Integers, Sequences, FiniteSets

CONSTANTS
  Elems,  \* addresses of entries
  Times,  \* values of nextTime
  Null,   \* NULL
  Unset   \* no nextTime: the entry is not allocated

ASSUME ZipTreeAssumption ==
  /\ IsFiniteSet(Elems) /\ Elems \subseteq Nat \ {0} /\ Times \subseteq Int
  /\ Null \notin Elems /\ Unset \notin Times

\* Where pointers are: head->root of the tree and of processTree, and the two
\* children of each entry
Tree == <<Null, "root">>
ProcessTree == <<Null, "processTree">>
Sides == {"left", "right"}
Edges == Elems \X Sides
Places == Edges \cup {Tree, ProcessTree}
Pointers == [Places -> Elems \cup {Null}]

OtherSide(side) == IF side = "left" THEN "right" ELSE "left"

VARIABLES
  rank,   \* the place of each entry by hash
  key,    \* nextTime
  link,   \* edge -> the entry it points to
  frames  \* the calls of __ZIP_ITER: the entry to call back for, and its right child

vars == <<rank, key, link, frames>>

-----------------------------------------------------------------------------
(* Comparisons.                                                            *)

\* __ZIP_UNIQUE_CMP of different elements
Before(k, x, y) == k[x] < k[y] \/ (k[x] = k[y] /\ x < y)

\* __ZIP_RANK_CMP
Below(x, y) == rank[x] < rank[y]

-----------------------------------------------------------------------------
(* Insertion, removal and split.                                           *)

\* A loop whose rounds are a function: no loop goes on for more rounds than
\* there are entries, and a round after the end changes nothing.
Loop(round, start) ==
  LET after[n \in 0..Cardinality(Elems)] ==
        IF n = 0 THEN start ELSE round[after[n - 1]]
  IN  after[Cardinality(Elems)]

\* Walk down one side from cur.  The elements that do not stay are moved, with
\* their other sides, to fix.
Walks == [link : Pointers, cur : Elems, fix : Places]
MoveRound(side, stay) ==
  [w \in Walks |->
    LET edge == <<w.cur, side>>
        next == w.link[edge]
        other == <<next, OtherSide(side)>>
    IN IF next = Null THEN w
       ELSE IF next \in stay THEN [w EXCEPT !.cur = next]
       ELSE [w EXCEPT !.fix = other,
               !.link = [@ EXCEPT ![edge] = w.link[other], ![other] = Null, ![w.fix] = next]]]
MoveOver(l, side, stay, fix, cur) ==
  Loop(MoveRound(side, stay), [link |-> l, cur |-> cur, fix |-> fix]).link

\* Go down to the edge that x belongs at by its key and its rank.
PlaceRound(l, k, x) ==
  [edge \in Places |->
    LET cur == l[edge]
    IN IF cur = Null \/ Below(cur, x) THEN edge
       ELSE <<cur, IF Before(k, cur, x) THEN "right" ELSE "left">>]
Place(l, k, x) == Loop(PlaceRound(l, k, x), Tree)

\* __ZIP_INSERT of an entry that is in neither tree.  The element cur at its
\* place comes below it, and elements on the wrong side are moved.
Insert(l, k, x) ==
  LET edge == Place(l, k, x)
      cur == l[edge]
      fresh == [l EXCEPT ![<<x, "left">>] = Null, ![<<x, "right">>] = Null, ![edge] = x]
  IN IF cur = Null THEN fresh
     ELSE IF Before(k, cur, x)
     THEN MoveOver([fresh EXCEPT ![<<x, "left">>] = cur], "right",
                   {y \in Elems : Before(k, y, x)}, <<x, "right">>, cur)
     ELSE MoveOver([fresh EXCEPT ![<<x, "right">>] = cur], "left",
                   {y \in Elems : Before(k, x, y)}, <<x, "left">>, cur)

\* __ZIP_ZIP: the trees x, on the left, and y are merged at edge.
Merges == [link : Pointers, edge : Places,
           left : Elems \cup {Null}, right : Elems \cup {Null}]
ZipRound ==
  [z \in Merges |->
    IF Null \in {z.left, z.right} THEN z
    ELSE IF Below(z.left, z.right)
    THEN [z EXCEPT !.link = [@ EXCEPT ![z.edge] = z.right],
                   !.edge = <<z.right, "left">>, !.right = z.link[<<z.right, "left">>]]
    ELSE [z EXCEPT !.link = [@ EXCEPT ![z.edge] = z.left],
                   !.edge = <<z.left, "right">>, !.left = z.link[<<z.left, "right">>]]]
Zip(l, edge, x, y) ==
  LET z == Loop(ZipRound, [link |-> l, edge |-> edge, left |-> x, right |-> y])
  IN [z.link EXCEPT ![z.edge] = IF z.left # Null THEN z.left ELSE z.right]

\* The edge that points to x, or the end of the search for it
SearchRound(l, k, x) ==
  [edge \in Places |->
    LET cur == l[edge]
    IN IF cur \in {Null, x} THEN edge
       ELSE <<cur, IF Before(k, x, cur) THEN "left" ELSE "right">>]
Search(l, k, x) == Loop(SearchRound(l, k, x), Tree)

\* ZIP_REMOVE finds the entry.
InTree(x) == link[Search(link, key, x)] = x

\* Mutant: the children are put back in a row, whatever their ranks are.
ChainRound ==
  [z \in Merges |->
    IF z.left = Null THEN z
    ELSE [z EXCEPT !.link = [@ EXCEPT ![z.edge] = z.left],
                   !.edge = <<z.left, "right">>, !.left = z.link[<<z.left, "right">>]]]
RemoveByChain(x) ==
  LET z == Loop(ChainRound, [link |-> link, edge |-> Search(link, key, x),
                             left |-> link[<<x, "left">>], right |-> link[<<x, "right">>]])
  IN [z.link EXCEPT ![z.edge] = z.right]

\* __ZIP_REMOVE of an entry that is found
Remove(x) == Zip(link, Search(link, key, x), link[<<x, "left">>], link[<<x, "right">>])

\* The last element of a spine that is in S
SpineRound(l, side, S) ==
  [x \in Elems |-> IF l[<<x, side>>] \in S THEN l[<<x, side>>] ELSE x]
EndOfSpine(l, side, S, x) == Loop(SpineRound(l, side, S), x)

\* __ZIP_UNZIP into processTree and the tree itself
Unzip(l, now) ==
  LET early == {x \in Elems : key[x] <= now}
      root == l[Tree]
      rootEarly == root \in early
      side == IF rootEarly THEN "right" ELSE "left"
      same == IF rootEarly THEN early ELSE Elems \ early
      prev == EndOfSpine(l, side, same, root)
      cur == l[<<prev, side>>]
      split == [l EXCEPT ![ProcessTree] = IF rootEarly THEN root ELSE cur,
                         ![Tree] = IF rootEarly THEN cur ELSE root]
  IN IF root = Null THEN [l EXCEPT ![ProcessTree] = Null]
     ELSE IF cur = Null THEN split
     ELSE MoveOver([split EXCEPT ![<<prev, side>>] = Null], OtherSide(side),
                   Elems \ same, <<prev, side>>, cur)

-----------------------------------------------------------------------------
(* Traversal and search.                                                   *)

\* __ZIP_ITER calls itself for the left child first, before anything else.
Frames == [elem : Elems, right : Elems \cup {Null}]
Descents == [at : Elems \cup {Null}, frames : Seq(Frames)]
DescendRound(l) ==
  [d \in Descents |->
    IF d.at = Null THEN d
    ELSE [at |-> l[<<d.at, "left">>],
          frames |-> <<[elem |-> d.at, right |-> l[<<d.at, "right">>]]>> \o d.frames]]
Descend(l, x, fs) == Loop(DescendRound(l), [at |-> x, frames |-> fs]).frames

\* ZIP_MIN
Leftmost == EndOfSpine(link, "left", Elems, link[Tree])

First == IF link[Tree] = Null THEN Unset ELSE key[Leftmost]

\* ZIP_FIND
FindRound(t) ==
  [x \in Elems \cup {Null} |->
    IF x = Null \/ key[x] = t THEN x
    ELSE link[<<x, IF t < key[x] THEN "left" ELSE "right">>]]
Find(t) == Loop(FindRound(t), link[Tree])

\* cmpBatchWindow of timer.c
CmpBatchWindow(from, latest, t) ==
  IF t < from THEN "less" ELSE IF t > latest THEN "more" ELSE "equal"

\* The entries that __ZIP_ITER_KEY is called for, and those that it visits, for
\* the window of batchTimerEntry
MeetRound(from, latest) ==
  [S \in SUBSET Elems |->
    LET lefts == {y \in S : CmpBatchWindow(from, latest, key[y]) # "more"}
        rights == {y \in S : CmpBatchWindow(from, latest, key[y]) # "less"}
        met == {link[<<y, "left">>] : y \in lefts} \cup {link[<<y, "right">>] : y \in rights}
    IN S \cup (met \ {Null})]
Visited(from, latest) ==
  {x \in Loop(MeetRound(from, latest), {link[Tree]} \ {Null}) :
     CmpBatchWindow(from, latest, key[x]) = "equal"}

-----------------------------------------------------------------------------
(* The timer.                                                              *)

Init ==
  /\ rank \in {r \in [Elems -> Elems] : \A x, y \in Elems : x # y => r[x] # r[y]}
  /\ key = [x \in Elems |-> Unset]
  /\ link = [e \in Places |-> Null]
  /\ frames = <<>>

\* The memory of an entry is freed.
Freed(l, x) == [l EXCEPT ![<<x, "left">>] = Null, ![<<x, "right">>] = Null]

\* UA_Timer_add
Add(x, t) ==
  /\ key[x] = Unset
  /\ key' = [key EXCEPT ![x] = t]
  /\ link' = Insert(link, key', x)
  /\ UNCHANGED <<rank, frames>>

\* UA_Timer_remove of an entry that is not in process
Delete(x) ==
  /\ key[x] # Unset /\ InTree(x)
  /\ key' = [key EXCEPT ![x] = Unset]
  /\ link' = Freed(Remove(x), x)
  /\ UNCHANGED <<rank, frames>>

\* UA_Timer_modify
Change(x, t) ==
  /\ key[x] # Unset
  /\ key' = [key EXCEPT ![x] = t]
  /\ link' = IF InTree(x) THEN Insert(Remove(x), key', x) ELSE link
  /\ UNCHANGED <<rank, frames>>

\* The beginning of UA_Timer_process
Process(now) ==
  /\ frames = <<>>
  /\ LET unzipped == Unzip(link, now)
     IN /\ frames' = Descend(unzipped, unzipped[ProcessTree], <<>>)
        /\ link' = [unzipped EXCEPT ![ProcessTree] = Null]
  /\ UNCHANGED <<rank, key>>

\* Mutant: the right child is read after the callback.
RightNow(f) == link'[<<f.elem, "right">>]

\* The right child, which was read before
RightOf(f) == f.right

\* The callback of an entry returns: processEntryCallback frees the entry or
\* inserts it with its next time, and __ZIP_ITER goes on.
Visit(t) ==
  /\ frames # <<>>
  /\ LET x == Head(frames).elem
     IN /\ key' = [key EXCEPT ![x] = t]
        /\ link' = IF t = Unset THEN Freed(link, x) ELSE Insert(link, key', x)
  /\ frames' = Descend(link', RightOf(Head(frames)), Tail(frames))
  /\ UNCHANGED rank

Next ==
  \/ \E x \in Elems, t \in Times : Add(x, t) \/ Change(x, t)
  \/ \E x \in Elems : Delete(x)
  \/ \E t \in Times : Process(t)
  \/ \E t \in Times \cup {Unset} : Visit(t)

Spec == Init /\ [][Next]_vars

-----------------------------------------------------------------------------
(* Properties.                                                             *)

\* The entries still to be visited, if nothing disturbs the traversal
Traversals == [frames : Seq(Frames), visited : Seq(Elems)]
VisitRound(l) ==
  [v \in Traversals |->
    IF v.frames = <<>> THEN v
    ELSE [frames |-> Descend(l, Head(v.frames).right, Tail(v.frames)),
          visited |-> Append(v.visited, Head(v.frames).elem)]]
ToVisit(l, fs) == Loop(VisitRound(l), [frames |-> fs, visited |-> <<>>]).visited

\* However entries are added, moved and removed, also by the callbacks of a
\* traversal, the pointers hold a set of entries of which those that are due are
\* visited once each, in the order of their times.
Queue == INSTANCE TimeQueue WITH
  queue <- {x \in Elems : key[x] # Unset /\ InTree(x)}, time <- key,
  due <- ToVisit(link, frames), first <- First
TimeQueueSpec == Queue!Spec

Parent(x, y) == y \in {link[<<x, "left">>], link[<<x, "right">>]}

\* The order of ranks that __ZIP_VALIDATE asserts, in code that is compiled out
RanksFall == \A x, y \in Elems : key[x] # Unset /\ Parent(x, y) => rank[y] < rank[x]

\* An entry with a time that is in the tree is found by this time.
TimesAreFound ==
  \A t \in {key[x] : x \in {y \in Elems : key[y] # Unset /\ InTree(y)}} :
    LET x == Find(t) IN x # Null /\ InTree(x) /\ key[x] = t

\* "Invariance of ZIP_ITER_KEY", which findTimer2Batch asserts
WindowIsKept ==
  \A from, latest \in Times : \A x \in Visited(from, latest) :
    key[x] \in from..latest

\* "Look in an interval around the original nextTime" (batchTimerEntry): the
\* search for a timer to batch with visits every entry of the interval.
WindowIsSearched ==
  \A from, latest \in Times :
    Visited(from, latest) =
      {x \in Elems : key[x] # Unset /\ InTree(x) /\ key[x] \in from..latest}

\* Both trees stay in the order of ranks through insertions, splits and
\* traversals, on which their depth depends; and the searches find what they
\* look for and nothing else.
SoundTrees == RanksFall /\ TimesAreFound /\ WindowIsKept
=============================================================================
