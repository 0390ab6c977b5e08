----------------------------- MODULE BPlusIndexP -----------------------------
(***************************************************************************)
(* The pages of an index (db/bplusindexp.cpp): search, insertion with      *)
(* splits, update, and the copy of every page in the index file.           *)
(*                                                                         *)
(* A page has `elements' (its size is their number), one pointer more than *)
(* elements, and a parent; keys descend from left to right, as             *)
(* findInsertPositionArray places them.  The index file is `disk'; a page  *)
(* that was persisted keeps its place in it (the page buffers give every   *)
(* page a buffer of its own), so one number names the page and its place.  *)
(* An operation is one step of the thread that applies the log, but a      *)
(* crash can stop it between any two of its writes: the operators thread   *)
(* a store through the code and collect in `images' what the file held     *)
(* after each write.                                                       *)
(***************************************************************************)
EXTENDS Naturals, FiniteSets, Sequences, SequencesExt, FiniteSetsExt

CONSTANTS
    BUCKET_MAX_ELEMENTS,  \* elements of a page, an odd number
    Keys,                 \* values of _id, in their order
    Preloads,             \* sequences of keys added before a behaviour starts
    MaxAdds,              \* bound on adds
    MaxUpdates,           \* bound on updates
    MaxRestarts           \* bound on restarts and crashes

ASSUME IndexAssumption ==
    /\ BUCKET_MAX_ELEMENTS \in Nat
    /\ BUCKET_MAX_ELEMENTS % 2 = 1
    /\ BUCKET_MAX_ELEMENTS >= 3
    /\ Keys \subseteq Nat
    /\ Preloads \subseteq Seq(Keys)
    /\ MaxAdds \in Nat /\ MaxUpdates \in Nat /\ MaxRestarts \in Nat

VARIABLES
    pages,      \* the pages in memory
    head,       \* _head
    disk,       \* the pages in the index file
    root,       \* the place of the head that the first buffer records
    positions,  \* what callers know: the last position given for each key
    atRisk,     \* keys under a page that a restart found cut or half split
    adds, updates, restarts

mem == <<pages, head>>
file == <<disk, root>>
counters == <<adds, updates, restarts>>
vars == <<pages, head, disk, root, positions, atRisk, adds, updates, restarts>>

NULL == 0
Half == (BUCKET_MAX_ELEMENTS \div 2) + 1
NullPointers(size) == [i \in 1..(size + 1) |-> NULL]

IsLeaf(page) == \A i \in DOMAIN page.pointers : page.pointers[i] = NULL
IsFull(page) == Len(page.elements) >= BUCKET_MAX_ELEMENTS

\* Mutant: a key goes before an equal one
FindInsertPositionBefore(elements, key) ==
    Min({x \in DOMAIN elements : elements[x].key <= key} \cup {Len(elements) + 1})

\* One place beyond the last element when no element is smaller than the key.
FindInsertPosition(elements, key) ==
    Min({x \in DOMAIN elements : elements[x].key < key} \cup {Len(elements) + 1})

-----------------------------------------------------------------------------
(* Search.                                                                  *)

NotFound == [key |-> NULL, pos |-> NULL]

\* The first element that is not greater decides: it is the one, or the
\* pointer to its left leads on.  An inner page may hold the key itself.
RECURSIVE FindIndex(_, _, _)
FindIndex(ps, start, key) ==
    LET page == ps[start]
        x    == Min({i \in DOMAIN page.elements : page.elements[i].key <= key}
                    \cup {Len(page.elements) + 1})
    IN  IF x <= Len(page.elements) /\ page.elements[x].key = key
        THEN page.elements[x]
        ELSE IF page.pointers[x] = NULL THEN NotFound
             ELSE FindIndex(ps, page.pointers[x], key)

\* Where a key belongs; past equal keys, and no further than a missing child.
RECURSIVE FindIndexPage(_, _, _)
FindIndexPage(ps, start, key) ==
    LET child == ps[start].pointers[FindInsertPosition(ps[start].elements, key)]
    IN  IF IsLeaf(ps[start]) \/ child = NULL THEN start
        ELSE FindIndexPage(ps, child, key)

\* IndexPage::find: every element that matches, in the order of the list,
\* those of the children before the page's own.
RECURSIVE FindMatching(_, _, _)
FindMatching(ps, start, accepted) ==
    LET page     == ps[start]
        Below(i) == IF page.pointers[i] = NULL THEN <<>>
                    ELSE FindMatching(ps, page.pointers[i], accepted)
        children == [i \in DOMAIN page.pointers |-> Below(i)]
    IN  FlattenSeq(Reverse(children))
          \o SelectSeq(page.elements, LAMBDA e : e.key \in accepted)

-----------------------------------------------------------------------------
(* The store that an operation works on, and its writes.                    *)

Store == [pages |-> pages, head |-> head, disk |-> disk, root |-> root,
          images |-> <<>>, split |-> {}]

NewPage(st) == Max(DOMAIN st.pages \cup DOMAIN st.disk) + 1

SetPage(st, p, page) ==
    [st EXCEPT !.pages = [q \in DOMAIN @ \cup {p} |-> IF q = p THEN page ELSE @[q]]]

\* A child without a place in the file is written as no child.
PersistPointer(st, p) == IF p \in DOMAIN st.disk THEN p ELSE NULL

\* A page without parent is the head: its place goes to the first buffer,
\* after the page itself.
PersistPage(st, p) ==
    LET page  == st.pages[p]
        image == [elements |-> page.elements,
                  pointers |-> [i \in DOMAIN page.pointers |->
                                    PersistPointer(st, page.pointers[i])]]
        disk1 == [q \in DOMAIN st.disk \cup {p} |-> IF q = p THEN image ELSE st.disk[q]]
        root1 == IF page.parent = NULL THEN p ELSE st.root
    IN  [st EXCEPT !.disk = disk1, !.root = root1,
                   !.images = @ \o << <<disk1, st.root>>, <<disk1, root1>> >>]

RefreshParentRelationship(st, p) ==
    [st EXCEPT !.pages = [q \in DOMAIN @ |->
        IF q \in Range(@[p].pointers) THEN [@[q] EXCEPT !.parent = p] ELSE @[q]]]

-----------------------------------------------------------------------------
(* Insertion.                                                               *)

CreateRoot(st, element, left, right) ==
    LET p == NewPage(st)
        page == [elements |-> <<element>>, pointers |-> <<left, right>>, parent |-> NULL]
    IN  RefreshParentRelationship([SetPage(st, p, page) EXCEPT !.head = p], p)

\* Mutant: the parent, which was written before its new child had a place, is
\* not written again
PersistSplitHalves(st, left, right) ==
    PersistPage(PersistPage(RefreshParentRelationship(st, st.pages[right].parent), left), right)

\* What both splits write at their end: the two halves and the parent of the
\* left one, which need not be the parent of the right one.
PersistSplit(st, left, right) ==
    LET st1 == RefreshParentRelationship(st, st.pages[right].parent)
        st2 == PersistPage(PersistPage(st1, left), right)
    IN  PersistPage(st2, st2.pages[left].parent)

RECURSIVE AddElement(_, _, _, _)

Promote(st, element, left, right) ==
    IF st.pages[left].parent = NULL THEN CreateRoot(st, element, left, right)
    ELSE AddElement(st, st.pages[left].parent, element, right)

SplitAddLeaf(st, p, element) ==
    LET page  == st.pages[p]
        tmp   == InsertAt(page.elements, FindInsertPosition(page.elements, element.key), element)
        r     == NewPage(st)
        left  == [page EXCEPT !.elements = SubSeq(tmp, 1, Half), !.pointers = NullPointers(Half)]
        right == [elements |-> SubSeq(tmp, Half + 1, Len(tmp)),
                  pointers |-> NullPointers(Half), parent |-> NULL]
        st1   == SetPage(SetPage([st EXCEPT !.split = @ \cup {p}], p, left), r, right)
    IN  PersistSplit(Promote(st1, right.elements[1], p, r), p, r)

\* Mutant: the element that moves up also stays
RightHalfCopy(tmpe, tmpp) ==
    [elements |-> SubSeq(tmpe, Half + 1, Len(tmpe)),
     pointers |-> <<NULL>> \o SubSeq(tmpp, Half + 2, Len(tmpp)), parent |-> NULL]

\* What is left of newRightPage when its first element has gone up.
RightHalf(tmpe, tmpp) ==
    [elements |-> SubSeq(tmpe, Half + 2, Len(tmpe)),
     pointers |-> SubSeq(tmpp, Half + 2, Len(tmpp)), parent |-> NULL]

\* The first element of the right half moves up; a leaf's is copied instead.
SplitAddInner(st, p, element, child) ==
    LET page  == st.pages[p]
        x     == FindInsertPosition(page.elements, element.key)
        tmpe  == InsertAt(page.elements, x, element)
        tmpp  == InsertAt(page.pointers, x + 1, child)
        r     == NewPage(st)
        left  == [page EXCEPT !.elements = SubSeq(tmpe, 1, Half),
                              !.pointers = SubSeq(tmpp, 1, Half + 1)]
        st1   == SetPage(SetPage([st EXCEPT !.split = @ \cup {p}], p, left),
                         r, RightHalf(tmpe, tmpp))
        st2   == RefreshParentRelationship(RefreshParentRelationship(st1, p), r)
    IN  PersistSplit(Promote(st2, tmpe[Half + 1], p, r), p, r)

\* Mutant: the child goes to the left of its element
InsertInPageLeft(st, p, element, child) ==
    LET page == st.pages[p]
        x    == FindInsertPosition(page.elements, element.key)
        st1  == SetPage(st, p, [page EXCEPT !.elements = InsertAt(@, x, element),
                                            !.pointers = InsertAt(@, x, child)])
    IN  PersistPage(IF child = NULL THEN st1
                    ELSE [st1 EXCEPT !.pages[child].parent = p], p)

InsertInPage(st, p, element, child) ==
    LET page == st.pages[p]
        x    == FindInsertPosition(page.elements, element.key)
        st1  == SetPage(st, p, [page EXCEPT !.elements = InsertAt(@, x, element),
                                            !.pointers = InsertAt(@, x + 1, child)])
    IN  PersistPage(IF child = NULL THEN st1
                    ELSE [st1 EXCEPT !.pages[child].parent = p], p)

AddElement(st, p, element, child) ==
    IF ~IsFull(st.pages[p]) THEN InsertInPage(st, p, element, child)
    ELSE IF IsLeaf(st.pages[p]) THEN SplitAddLeaf(st, p, element)
    ELSE SplitAddInner(st, p, element, child)

InsertIndexElement(st, key, pos) ==
    AddElement(st, FindIndexPage(st.pages, st.head, key), [key |-> key, pos |-> pos], NULL)

\* The element of the page where the key belongs; copies above are left alone.
UpdateElement(st, key, pos) ==
    LET p  == FindIndexPage(st.pages, st.head, key)
        xs == {x \in DOMAIN st.pages[p].elements : st.pages[p].elements[x].key = key}
    IN  IF xs = {} THEN st
        ELSE PersistPage([st EXCEPT !.pages[p].elements[Min(xs)].pos = pos], p)

-----------------------------------------------------------------------------
(* Loading.  Pages are loaded when a search first reaches them; no one else *)
(* writes a page that is not loaded, so the model loads all of them.        *)

RECURSIVE Under(_, _)
Under(ps, p) ==
    {p} \cup UNION {Under(ps, c) : c \in Range(ps[p].pointers) \ {NULL}}

LoadIndex(d, r) ==
    LET reached == Under(d, r)
        Parents(p) == {q \in reached : p \in Range(d[q].pointers)}
    IN  [p \in reached |->
            [elements |-> d[p].elements, pointers |-> d[p].pointers,
             parent |-> IF p = r THEN NULL ELSE CHOOSE q \in Parents(p) : TRUE]]

KeysUnder(ps, p) == UNION {{e.key : e \in Range(ps[q].elements)} : q \in Under(ps, p)}

-----------------------------------------------------------------------------
(* Actions.                                                                 *)

EmptyStore ==
    PersistPage([pages |-> (1 :> [elements |-> <<>>, pointers |-> NullPointers(0), parent |-> NULL]),
                 head |-> 1, disk |-> <<>>, root |-> NULL, images |-> <<>>, split |-> {}], 1)

Loaded(s) == FoldSeq(LAMBDA k, st : InsertIndexElement(st, k, 1), EmptyStore, s)

Init ==
    /\ \E s \in Preloads :
         LET st == Loaded(s)
         IN  /\ pages = st.pages /\ head = st.head /\ disk = st.disk /\ root = st.root
             /\ positions = [k \in Range(s) |-> 1]
    /\ atRisk = {}
    /\ adds = 0 /\ updates = 0 /\ restarts = 0

Becomes(st) ==
    /\ pages' = st.pages /\ head' = st.head
    /\ disk' = st.disk /\ root' = st.root

Add(key) ==
    /\ adds < MaxAdds
    /\ key \notin DOMAIN positions
    /\ Becomes(InsertIndexElement(Store, key, 1))
    /\ positions' = [k \in DOMAIN positions \cup {key} |->
                        IF k = key THEN 1 ELSE positions[k]]
    /\ adds' = adds + 1
    /\ UNCHANGED <<atRisk, updates, restarts>>

Update(key) ==
    /\ updates < MaxUpdates
    /\ key \in DOMAIN positions
    /\ Becomes(UpdateElement(Store, key, positions[key] + 1))
    /\ positions' = [positions EXCEPT ![key] = @ + 1]
    /\ updates' = updates + 1
    /\ UNCHANGED <<atRisk, adds, restarts>>

\* Children that the file does not know, and what memory has under them.
Unlinked ==
    UNION {{pages[p].pointers[i] : i \in {i \in DOMAIN pages[p].pointers :
                                            disk[p].pointers[i] # pages[p].pointers[i]}}
           : p \in Under(pages, head)}

RestartFrom(image) ==
    /\ restarts < MaxRestarts
    /\ disk' = image[1] /\ root' = image[2]
    /\ pages' = LoadIndex(image[1], image[2])
    /\ head' = image[2]
    /\ restarts' = restarts + 1
    /\ UNCHANGED <<positions, adds, updates>>

Restart ==
    /\ RestartFrom(<<disk, root>>)
    /\ atRisk' = atRisk \cup UNION {KeysUnder(pages, c) : c \in Unlinked}

\* The process ends after some, not all, of the writes of an add.
CrashInAdd(key) ==
    /\ adds < MaxAdds
    /\ key \notin DOMAIN positions
    /\ LET st == InsertIndexElement(Store, key, 1)
       IN  /\ \E n \in 1..(Len(st.images) - 1) : RestartFrom(st.images[n])
           /\ atRisk' = atRisk \cup {key}
                \cup UNION {KeysUnder(pages, c) : c \in Unlinked}
                \cup UNION {KeysUnder(pages, p) : p \in st.split}

Next ==
    \/ \E key \in Keys : Add(key) \/ Update(key) \/ CrashInAdd(key)
    \/ Restart

Spec == Init /\ [][Next]_vars

\* The index is closed and opened, but the process never dies in an add.
CleanNext == Restart \/ \E key \in Keys : Add(key) \/ Update(key)
CleanSpec == Init /\ [][CleanNext]_vars

-----------------------------------------------------------------------------
(* Properties.                                                              *)

Intact == atRisk = {}
Present == DOMAIN positions \ atRisk
Tree == Under(pages, head)

\* The shape of the state: pages with one pointer more than elements, within
\* their capacity, and every page of the tree in the file.
TypeOK ==
    /\ \A p \in DOMAIN pages :
         /\ pages[p].elements \in Seq([key : Keys, pos : 1..(MaxUpdates + 1)])
         /\ Len(pages[p].elements) <= BUCKET_MAX_ELEMENTS
         /\ Len(pages[p].pointers) = Len(pages[p].elements) + 1
         /\ Range(pages[p].pointers) \subseteq DOMAIN pages \cup {NULL}
         /\ pages[p].parent \in DOMAIN pages \cup {NULL}
    /\ head \in DOMAIN pages /\ root \in DOMAIN disk
    /\ Tree \subseteq DOMAIN disk
    /\ positions \in [DOMAIN positions -> 1..(MaxUpdates + 1)]

\* Every key that was added is found by findIndex, whatever splits happened
\* since and wherever copies of it went, and no other key is; keys that a
\* restart put at risk are left out.
FindsEveryKey ==
    \A k \in Keys :
        /\ k \in Present => FindIndex(pages, head, k).key = k
        /\ FindIndex(pages, head, k) # NotFound => k \in DOMAIN positions \cup atRisk

\* What search relies on, kept by splitAddLeaf and splitAddInner together: in
\* every page keys descend, the keys under a pointer lie between its
\* neighbours, children know their parent, no inner page misses a child, all
\* leaves are at one depth and no page but the head is less than half full.
RECURSIVE Depths(_, _)
Depths(ps, p) ==
    IF IsLeaf(ps[p]) THEN {0}
    ELSE {d + 1 : d \in UNION {Depths(ps, c) : c \in Range(ps[p].pointers) \ {NULL}}}

SearchTree ==
    Intact =>
        /\ \A p \in Tree :
             LET es == pages[p].elements
                 cs == pages[p].pointers
             IN  /\ \A i \in 2..Len(es) : es[i].key < es[i - 1].key
                 /\ p # head => Len(es) >= IF IsLeaf(pages[p]) THEN Half ELSE Half - 1
                 /\ ~IsLeaf(pages[p]) =>
                      \A i \in DOMAIN cs :
                        /\ cs[i] # NULL /\ pages[cs[i]].parent = p
                        /\ \A k \in KeysUnder(pages, cs[i]) :
                             /\ i <= Len(es) => es[i].key < k
                             /\ i > 1 => k <= es[i - 1].key
        /\ Cardinality(Depths(pages, head)) = 1
        /\ pages[head].parent = NULL

\* The pages are well formed and a search tree, after any splits.
PagesSound == TypeOK /\ SearchTree

\* An update changes the element of the leaf, so the leaf is always current;
\* find returns that element unless a split has copied the key to an inner
\* page, which no update reaches.
Inner(k) == {p \in Tree : ~IsLeaf(pages[p])
                            /\ \E e \in Range(pages[p].elements) : e.key = k}

CurrentUnlessCopied ==
    Intact => \A k \in DOMAIN positions :
        /\ LET leaf == FindIndexPage(pages, head, k)
           IN  [key |-> k, pos |-> positions[k]] \in Range(pages[leaf].elements)
        /\ Inner(k) = {} => FindIndex(pages, head, k).pos = positions[k]

\* IndexPage::find lists a key once for its leaf and once for the copy that a
\* split left above it; the move of an element in splitAddInner adds none.
ListedOncePerCopy ==
    Intact => \A k \in DOMAIN positions :
        /\ Cardinality(Inner(k)) <= 1
        /\ Len(FindMatching(pages, head, {k})) = 1 + Cardinality(Inner(k))

\* Together: what the copies that splits leave in inner pages do to findIndex
\* and to find, and that they do no more.
CopiesKnown == CurrentUnlessCopied /\ ListedOncePerCopy

\* The file holds the tree of memory, except for the first child of a page
\* that is the right half of a split inner page: when the halves of the child
\* fall on both sides, only the parent of the left one is written again.
FileHasTree ==
    /\ root = head
    /\ \A p \in Tree :
         /\ disk[p].elements = pages[p].elements
         /\ \A i \in DOMAIN pages[p].pointers :
              \/ disk[p].pointers[i] = pages[p].pointers[i]
              \/ i = 1 /\ disk[p].pointers[i] = NULL

\* Every key is found after the index was closed and opened again
\* (db/tests/testIndexP.cpp, testRecoverNames).
FoundAfterRestart ==
    \A k \in DOMAIN positions : FindIndex(pages, head, k).key = k

=============================================================================
