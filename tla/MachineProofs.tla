---------------------------- MODULE MachineProofs ----------------------------
(***************************************************************************)
(* Proofs about the machine of the core: its cache of translated code      *)
(* (CodeCache), and the two threads that hand it over to each other        *)
(* (CoreThreads).  The two have no variable in common.                     *)
(***************************************************************************)
EXTENDS CodeCache, CoreThreads, FiniteSetTheorems, FunctionTheorems, SequenceTheorems,
        WellFoundedInduction, TLAPS

(***************************************************************************)
(* The cache of translated code, of any size.  Its operations work on the  *)
(* cache as a value; a block is alive while it stands for a stretch, and   *)
(* the set A of those that are is a parameter of what is said of a cache,  *)
(* because a page that loses its handler lets go of its blocks first and   *)
(* clears them afterwards.                                                 *)
(***************************************************************************)
BlockRecs == [page : Pages \cup {None}, first : Addresses, last : Addresses,
              hashed : BOOLEAN, other : Blocks \cup {None},
              to : [LinkIds -> Blocks \cup {LinkBlock}],
              from : [LinkIds -> SUBSET Blocks]]
BlockMaps == [Blocks -> BlockRecs]
PieceRecs == [block : Blocks, size : Nat \ {0}]
Caches    == [blocks : BlockMaps, code : Seq(PieceRecs), active : Blocks, free : SUBSET Blocks,
              write_map : [Pages -> [Addresses -> Nat]], used : Seq(Pages),
              active_count : [Pages -> 1..ReleaseDelay]]

(* A link leads from one block that is alive to another, and the other one *)
(* knows; a cross block, and what is not alive, is not linked to.          *)
Linked(blks, A) ==
    /\ \A b \in A, i \in LinkIds : blks[b].hashed =>
          /\ blks[b].to[i] # LinkBlock =>
                /\ blks[b].to[i] \in A /\ blks[blks[b].to[i]].hashed
                /\ b \in blks[blks[b].to[i]].from[i]
          /\ \A f \in blks[b].from[i] : f \in A /\ blks[f].hashed /\ blks[f].to[i] = b
    /\ \A b \in Blocks, i \in LinkIds : b \notin A \/ ~blks[b].hashed => blks[b].from[i] = {}

(* The two of a pair are alive together, in different pages.               *)
Paired(blks, A) ==
    /\ \A b \in A : blks[b].other # None =>
          /\ blks[b].other \in A /\ blks[blks[b].other].other = b
          /\ blks[blks[b].other].hashed # blks[b].hashed
          /\ blks[blks[b].other].page # blks[b].page
    /\ \A b \in Blocks \ A : blks[b].other = None /\ blks[b].page = None

Stretches(blks) == \A b \in Blocks : blks[b].first <= blks[b].last

(* Every structure is a piece, a cross block or free.                      *)
PieceBlocks(mem) == {mem[k].block : k \in 1..Len(mem)}
Apart(mem)       == \A k, l \in 1..Len(mem) : mem[k].block = mem[l].block => k = l
CrossOf(blks, A)  == {b \in A : ~blks[b].hashed}
Parts(P, X, F)    == /\ Blocks = P \cup X \cup F
                     /\ P \cap X = {} /\ P \cap F = {} /\ X \cap F = {}

Conserved(c, A) ==
    /\ Apart(c.code) /\ c.active \in PieceBlocks(c.code)
    /\ Parts(PieceBlocks(c.code), CrossOf(c.blocks, A), c.free)

(* The write maps of the pages in Q count the blocks over each byte.       *)
Over(blks, p, a) == {b \in Blocks : blks[b].page = p /\ a <= blks[b].last /\ a >= blks[b].first}
Counted(c, Q)    == \A p \in Q, a \in Addresses : c.write_map[p][a] = Cardinality(Over(c.blocks, p, a))

(* Pages with blocks have a handler, and no page has two.                  *)
Handled(c) == \A b \in Blocks : c.blocks[b].page # None => HasHandler(c, c.blocks[b].page)
Once(pages) == \A k, l \in 1..Len(pages) : pages[k] = pages[l] => k = l

(* Only the structures, the free list and the maps may differ.             *)
Same(c, d) ==
    /\ d.code = c.code /\ d.active = c.active /\ d.used = c.used
    /\ \A b \in Blocks : /\ d.blocks[b].first = c.blocks[b].first /\ d.blocks[b].last = c.blocks[b].last
                         /\ d.blocks[b].hashed = c.blocks[b].hashed

(* The constants, without the assumption. *)
LEMMA CodeConstants ==
    /\ PageEnd \in Nat /\ HashSize \in Nat \ {0} /\ Blocks \in SUBSET Nat /\ IsFiniteSet(Blocks)
    /\ ReleaseDelay \in Nat \ {0} /\ None \notin Pages /\ None \notin Blocks /\ LinkBlock \notin Blocks
    /\ Addresses \in SUBSET Nat
  BY CacheAssumption DEF Addresses

(* The fields of a structure have their types. *)
LEMMA BlockFields ==
    ASSUME NEW blks \in BlockMaps, NEW b \in Blocks
    PROVE  /\ blks[b] \in BlockRecs /\ blks[b].page \in Pages \cup {None}
           /\ blks[b].first \in Addresses /\ blks[b].last \in Addresses
           /\ blks[b].hashed \in BOOLEAN /\ blks[b].other \in Blocks \cup {None}
           /\ blks[b].to \in [LinkIds -> Blocks \cup {LinkBlock}]
           /\ blks[b].from \in [LinkIds -> SUBSET Blocks]
  <1>1. blks[b] \in BlockRecs
    BY DEF BlockMaps
  <1> QED
    BY <1>1 DEF BlockRecs

(* The fields of a cache have their types. *)
LEMMA CodeFields ==
    ASSUME NEW c \in Caches
    PROVE  /\ c.blocks \in BlockMaps /\ c.code \in Seq(PieceRecs) /\ c.active \in Blocks
           /\ c.free \in SUBSET Blocks /\ c.write_map \in [Pages -> [Addresses -> Nat]]
           /\ c.used \in Seq(Pages) /\ c.active_count \in [Pages -> 1..ReleaseDelay]
  BY DEF Caches

(* Changing one structure gives it the content and leaves the others. *)
LEMMA ChangedIs ==
    ASSUME NEW blks \in BlockMaps, NEW b, NEW r \in BlockRecs
    PROVE  /\ Changed(blks, b, r) \in BlockMaps
           /\ \A x \in Blocks : Changed(blks, b, r)[x] = IF x = b THEN r ELSE blks[x]
  BY DEF Changed, BlockMaps

(* Links stay sound where neither they nor what is hashed change. *)
LEMMA LinkedSame ==
    ASSUME NEW A \in SUBSET Blocks, NEW blks \in BlockMaps, NEW new, Linked(blks, A),
           \A b \in Blocks : /\ new[b].hashed = blks[b].hashed
                             /\ new[b].to = blks[b].to /\ new[b].from = blks[b].from
    PROVE  Linked(new, A)
  <1>1. \A b \in A, i \in LinkIds : blks[b].hashed =>
           /\ blks[b].to[i] # LinkBlock =>
                 blks[b].to[i] \in A /\ blks[blks[b].to[i]].hashed /\ b \in blks[blks[b].to[i]].from[i]
           /\ \A f \in blks[b].from[i] : f \in A /\ blks[f].hashed /\ blks[f].to[i] = b
    BY DEF Linked
  <1>2. \A b \in Blocks, i \in LinkIds : b \notin A \/ ~blks[b].hashed => blks[b].from[i] = {}
    BY DEF Linked
  <1>3. \A b \in A, i \in LinkIds : new[b].hashed =>
           /\ new[b].to[i] # LinkBlock =>
                 new[b].to[i] \in A /\ new[new[b].to[i]].hashed /\ b \in new[new[b].to[i]].from[i]
           /\ \A f \in new[b].from[i] : f \in A /\ new[f].hashed /\ new[f].to[i] = b
    <2> SUFFICES ASSUME NEW b \in A, NEW i \in LinkIds, new[b].hashed
                 PROVE  /\ new[b].to[i] # LinkBlock =>
                              new[b].to[i] \in A /\ new[new[b].to[i]].hashed /\ b \in new[new[b].to[i]].from[i]
                        /\ \A f \in new[b].from[i] : f \in A /\ new[f].hashed /\ new[f].to[i] = b
      OBVIOUS
    <2>1. blks[b].hashed /\ b \in Blocks
      OBVIOUS
    <2>2. ASSUME new[b].to[i] # LinkBlock
          PROVE  new[b].to[i] \in A /\ new[new[b].to[i]].hashed /\ b \in new[new[b].to[i]].from[i]
      <3>1. new[b].to[i] = blks[b].to[i]
        BY <2>1
      <3>2. blks[b].to[i] \in A /\ blks[blks[b].to[i]].hashed /\ b \in blks[blks[b].to[i]].from[i]
        BY <1>1, <2>1, <2>2, <3>1
      <3> QED
        BY <3>1, <3>2
    <2>3. ASSUME NEW f \in new[b].from[i] PROVE f \in A /\ new[f].hashed /\ new[f].to[i] = b
      <3>1. f \in A /\ blks[f].hashed /\ blks[f].to[i] = b
        BY <1>1, <2>1, <2>3
      <3> QED
        BY <3>1
    <2> QED
      BY <2>2, <2>3
  <1>4. \A b \in Blocks, i \in LinkIds : b \notin A \/ ~new[b].hashed => new[b].from[i] = {}
    BY <1>2
  <1> QED
    BY <1>3, <1>4 DEF Linked

(* Unlink changes links only, and these as FromWithout and ToWithout say. *)
LEMMA UnlinkIs ==
    ASSUME NEW blks \in BlockMaps, NEW b \in Blocks
    PROVE  /\ Unlink(blks, b) \in BlockMaps
           /\ \A c \in Blocks :
                 LET d == Unlink(blks, b)[c]
                 IN  /\ d.page = blks[c].page /\ d.first = blks[c].first /\ d.last = blks[c].last
                     /\ d.hashed = blks[c].hashed /\ d.other = blks[c].other
                     /\ \A i \in LinkIds : d.to[i] = ToWithout(blks, b, c, i) /\ d.from[i] = FromWithout(blks, b, c, i)
  <1> SUFFICES ASSUME NEW c \in Blocks
               PROVE  LET d == Unlink(blks, b)[c]
                      IN  /\ d \in BlockRecs
                          /\ d.page = blks[c].page /\ d.first = blks[c].first /\ d.last = blks[c].last
                          /\ d.hashed = blks[c].hashed /\ d.other = blks[c].other
                          /\ \A i \in LinkIds : d.to[i] = ToWithout(blks, b, c, i) /\ d.from[i] = FromWithout(blks, b, c, i)
    <2> DEFINE new == Unlink(blks, b)
    <2>1. new = [c \in Blocks |-> new[c]]
      BY Zenon DEF Unlink
    <2> HIDE DEF new
    <2>2. (\A c \in Blocks : new[c] \in BlockRecs) => new \in BlockMaps
      BY <2>1 DEF BlockMaps
    <2> QED
      BY <2>2 DEF new
  <1> DEFINE d == Unlink(blks, b)[c]
             to == [i \in LinkIds |-> ToWithout(blks, b, c, i)]
             from == [i \in LinkIds |-> FromWithout(blks, b, c, i)]
  <1>1. d = [blks[c] EXCEPT !.to = to, !.from = from]
    BY DEF Unlink
  <1>2. \A i \in LinkIds : blks[c].to[i] \in Blocks \cup {LinkBlock} /\ blks[c].from[i] \in SUBSET Blocks
    BY BlockFields
  <1>3. \A i \in LinkIds : ToWithout(blks, b, c, i) \in Blocks \cup {LinkBlock}
    BY <1>2 DEF ToWithout
  <1>4. \A i \in LinkIds : FromWithout(blks, b, c, i) \in SUBSET Blocks
    BY <1>2 DEF FromWithout
  <1>5. to \in [LinkIds -> Blocks \cup {LinkBlock}] /\ from \in [LinkIds -> SUBSET Blocks]
    BY <1>3, <1>4
  <1>6. /\ \A i \in LinkIds : to[i] = ToWithout(blks, b, c, i)
        /\ \A i \in LinkIds : from[i] = FromWithout(blks, b, c, i)
    OBVIOUS
  <1> HIDE DEF to, from
  <1>7. blks[c] \in BlockRecs
    BY BlockFields
  <1>8. d \in BlockRecs /\ d.to = to /\ d.from = from
    BY <1>1, <1>5, <1>7 DEF BlockRecs
  <1>9. /\ d.page = blks[c].page /\ d.first = blks[c].first /\ d.last = blks[c].last
        /\ d.hashed = blks[c].hashed /\ d.other = blks[c].other
    BY <1>1, <1>7 DEF BlockRecs
  <1> QED
    BY <1>6, <1>8, <1>9

(* Without the links of b the others are linked among themselves.          *)
LEMMA UnlinkLinks ==
    ASSUME NEW blks \in BlockMaps, NEW A \in SUBSET Blocks, Linked(blks, A), NEW b \in A, blks[b].hashed
    PROVE  Linked(Unlink(blks, b), A \ {b})
  <1> DEFINE new == Unlink(blks, b)
             B == A \ {b}
  <1>1. \A c \in Blocks : /\ new[c].hashed = blks[c].hashed
                          /\ \A i \in LinkIds : /\ new[c].to[i] = ToWithout(blks, b, c, i)
                                                /\ new[c].from[i] = FromWithout(blks, b, c, i)
    BY UnlinkIs
  <1>2. \A c \in A, i \in LinkIds : blks[c].hashed =>
           /\ blks[c].to[i] # LinkBlock =>
                 blks[c].to[i] \in A /\ blks[blks[c].to[i]].hashed /\ c \in blks[blks[c].to[i]].from[i]
           /\ \A f \in blks[c].from[i] : f \in A /\ blks[f].hashed /\ blks[f].to[i] = c
    BY DEF Linked
  <1>3. \A c \in Blocks, i \in LinkIds : c \notin A \/ ~blks[c].hashed => blks[c].from[i] = {}
    BY DEF Linked
  <1> HIDE DEF new
  <1>4. ASSUME NEW c \in B, NEW i \in LinkIds, new[c].hashed, new[c].to[i] # LinkBlock
        PROVE  new[c].to[i] \in B /\ new[new[c].to[i]].hashed /\ c \in new[new[c].to[i]].from[i]
    <2>1. c \in Blocks /\ c \in A /\ c # b /\ blks[c].hashed
      BY <1>1, <1>4
    <2>2. c \notin blks[b].from[i] /\ new[c].to[i] = blks[c].to[i]
      BY <1>1, <1>4, <2>1 DEF ToWithout
    <2> DEFINE t == blks[c].to[i]
    <2>3. t \in A /\ blks[t].hashed /\ c \in blks[t].from[i]
      BY <1>2, <1>4, <2>1, <2>2
    <2> HIDE DEF t
    <2>4. t # b
      BY <2>2, <2>3
    <2>5. new[t].from[i] = FromWithout(blks, b, t, i) /\ new[t].hashed
      BY <1>1, <2>3
    <2>6. c \in FromWithout(blks, b, t, i)
      BY <2>1, <2>3, <2>4 DEF FromWithout
    <2>7. new[c].to[i] = t
      BY <2>2 DEF t
    <2> QED
      BY <2>3, <2>4, <2>5, <2>6, <2>7
  <1>5. ASSUME NEW c \in B, NEW i \in LinkIds, new[c].hashed, NEW f \in new[c].from[i]
        PROVE  f \in B /\ new[f].hashed /\ new[f].to[i] = c
    <2>1. c \in Blocks /\ c \in A /\ c # b /\ blks[c].hashed
      BY <1>1, <1>5
    <2>0. f \in FromWithout(blks, b, c, i)
      BY <1>1, <1>5, <2>1
    <2>2. f \in blks[c].from[i] /\ (c = blks[b].to[i] => f # b)
      BY <2>0, <2>1 DEF FromWithout
    <2>3. f \in A /\ blks[f].hashed /\ blks[f].to[i] = c
      BY <1>2, <2>1, <2>2
    <2>4. f # b
      BY <2>2, <2>3
    <2>5. f \notin blks[b].from[i]
      <3> SUFFICES ASSUME f \in blks[b].from[i] PROVE FALSE
        OBVIOUS
      <3>1. \A g \in blks[b].from[i] : g \in A /\ blks[g].hashed /\ blks[g].to[i] = b
        BY <1>2
      <3>2. blks[f].to[i] = b
        BY <3>1
      <3> QED
        BY <2>1, <2>3, <3>2
    <2>6. new[f].to[i] = blks[f].to[i]
      BY <1>1, <2>3, <2>5 DEF ToWithout
    <2> QED
      BY <1>1, <2>3, <2>4, <2>6
  <1>6. ASSUME NEW c \in Blocks, NEW i \in LinkIds, c \notin B \/ ~new[c].hashed
        PROVE  new[c].from[i] = {}
    <2>1. c = b \/ c \notin A \/ ~blks[c].hashed
      BY <1>1, <1>6
    <2>2. new[c].from[i] = FromWithout(blks, b, c, i)
      BY <1>1
    <2>3. c # b => blks[c].from[i] = {}
      BY <1>3, <2>1
    <2> QED
      BY <2>2, <2>3 DEF FromWithout
  <1> QED
    BY <1>4, <1>5, <1>6 DEF Linked, new

(* A cross block is linked to nobody.                                      *)
LEMMA CrossLinks ==
    ASSUME NEW blks \in BlockMaps, NEW A \in SUBSET Blocks, Linked(blks, A), NEW b \in A, ~blks[b].hashed
    PROVE  Linked(blks, A \ {b})
  <1>1. \A c \in A, i \in LinkIds : blks[c].hashed =>
           /\ blks[c].to[i] # LinkBlock =>
                 blks[c].to[i] \in A /\ blks[blks[c].to[i]].hashed /\ c \in blks[blks[c].to[i]].from[i]
           /\ \A f \in blks[c].from[i] : f \in A /\ blks[f].hashed /\ blks[f].to[i] = c
    BY DEF Linked
  <1>2. \A c \in Blocks, i \in LinkIds : c \notin A \/ ~blks[c].hashed => blks[c].from[i] = {}
    BY DEF Linked
  <1>3. \A c \in A \ {b}, i \in LinkIds : blks[c].hashed =>
           /\ blks[c].to[i] # LinkBlock =>
                 blks[c].to[i] \in A \ {b} /\ blks[blks[c].to[i]].hashed /\ c \in blks[blks[c].to[i]].from[i]
           /\ \A f \in blks[c].from[i] : f \in A \ {b} /\ blks[f].hashed /\ blks[f].to[i] = c
    BY <1>1
  <1>4. \A c \in Blocks, i \in LinkIds : c \notin A \ {b} \/ ~blks[c].hashed => blks[c].from[i] = {}
    BY <1>2
  <1> QED
    BY <1>3, <1>4 DEF Linked
-----------------------------------------------------------------------------
(* The parts of Clear, each with what it does to the cache.                *)

(* With other structures it is a cache still. *)
LEMMA WithBlocks ==
    ASSUME NEW c \in Caches, NEW new \in BlockMaps
    PROVE  LET d == [c EXCEPT !.blocks = new]
           IN  /\ d \in Caches /\ d.blocks = new /\ d.code = c.code /\ d.active = c.active /\ d.free = c.free
               /\ d.write_map = c.write_map /\ d.used = c.used /\ d.active_count = c.active_count
  BY DEF Caches

(* With another free list it is a cache still. *)
LEMMA WithFree ==
    ASSUME NEW c \in Caches, NEW new \in SUBSET Blocks
    PROVE  LET d == [c EXCEPT !.free = new]
           IN  /\ d \in Caches /\ d.blocks = c.blocks /\ d.code = c.code /\ d.active = c.active /\ d.free = new
               /\ d.write_map = c.write_map /\ d.used = c.used /\ d.active_count = c.active_count
  BY DEF Caches

(* What the structures are about is left alone. *)
SameAbout(c, d) == \A b \in Blocks : /\ d.blocks[b].page = c.blocks[b].page
                                     /\ d.blocks[b].other = c.blocks[b].other
SameMaps(c, d)  == d.write_map = c.write_map /\ d.active_count = c.active_count

(* Drop takes one block out of the links or off the cross blocks. *)
LEMMA DropStep ==
    ASSUME NEW c \in Caches, NEW A \in SUBSET Blocks, Linked(c.blocks, A), Conserved(c, A), NEW b \in A
    PROVE  /\ Drop(c, b) \in Caches /\ Linked(Drop(c, b).blocks, A \ {b}) /\ Conserved(Drop(c, b), A \ {b})
           /\ Same(c, Drop(c, b)) /\ SameAbout(c, Drop(c, b)) /\ SameMaps(c, Drop(c, b))
           /\ c.free \subseteq Drop(c, b).free
  <1> DEFINE d == Drop(c, b)
             new == Unlink(c.blocks, b)
  <1>0. c.blocks \in BlockMaps /\ b \in Blocks
    BY CodeFields
  <1>1. CASE c.blocks[b].hashed
    <2>1. d = [c EXCEPT !.blocks = new]
      BY <1>1 DEF Drop
    <2>2. new \in BlockMaps /\ \A x \in Blocks :
             /\ new[x].page = c.blocks[x].page /\ new[x].first = c.blocks[x].first
             /\ new[x].last = c.blocks[x].last /\ new[x].hashed = c.blocks[x].hashed
             /\ new[x].other = c.blocks[x].other
      BY <1>0, UnlinkIs
    <2>3. Linked(new, A \ {b})
      BY <1>0, <1>1, UnlinkLinks
    <2> HIDE DEF new
    <2>4. /\ d \in Caches /\ d.blocks = new /\ d.code = c.code /\ d.active = c.active /\ d.free = c.free
          /\ d.write_map = c.write_map /\ d.used = c.used /\ d.active_count = c.active_count
      BY <2>1, <2>2, WithBlocks
    <2> HIDE DEF d
    <2>5. CrossOf(d.blocks, A \ {b}) = CrossOf(c.blocks, A)
      BY <1>1, <2>2, <2>4 DEF CrossOf
    <2>6. Conserved(d, A \ {b})
      BY <2>4, <2>5 DEF Conserved
    <2>7. Same(c, d) /\ SameAbout(c, d) /\ SameMaps(c, d)
      BY <2>2, <2>4 DEF Same, SameAbout, SameMaps
    <2> QED
      BY <2>3, <2>4, <2>6, <2>7 DEF d
  <1>2. CASE ~c.blocks[b].hashed
    <2> DEFINE F == c.free \cup {b}
    <2>1. d = [c EXCEPT !.free = F]
      BY <1>2 DEF Drop
    <2>2. F \in SUBSET Blocks
      BY CodeFields
    <2>3. Linked(c.blocks, A \ {b})
      BY <1>0, <1>2, CrossLinks
    <2>4. /\ d \in Caches /\ d.blocks = c.blocks /\ d.code = c.code /\ d.active = c.active /\ d.free = F
          /\ d.write_map = c.write_map /\ d.used = c.used /\ d.active_count = c.active_count
      BY <2>1, <2>2, WithFree
    <2> HIDE DEF d
    <2>5. CrossOf(d.blocks, A \ {b}) = CrossOf(c.blocks, A) \ {b} /\ b \in CrossOf(c.blocks, A)
      BY <1>2, <2>4 DEF CrossOf
    <2>6. Conserved(d, A \ {b})
      BY <2>4, <2>5 DEF Conserved, Parts
    <2>7. Same(c, d) /\ SameAbout(c, d) /\ SameMaps(c, d)
      BY <2>4 DEF Same, SameAbout, SameMaps
    <2> QED
      BY <2>3, <2>4, <2>6, <2>7 DEF d
  <1> QED
    BY <1>1, <1>2

Alone(c, x) == [c EXCEPT !.blocks = Changed(@, x, [@[x] EXCEPT !.other = None])]

(* A block parted from the other of its pair; links and places stay sound. *)
LEMMA AloneStep ==
    ASSUME NEW c \in Caches, NEW A \in SUBSET Blocks, Linked(c.blocks, A), Conserved(c, A), NEW x \in Blocks
    PROVE  /\ Alone(c, x) \in Caches /\ Linked(Alone(c, x).blocks, A) /\ Conserved(Alone(c, x), A)
           /\ Same(c, Alone(c, x)) /\ SameMaps(c, Alone(c, x)) /\ Alone(c, x).free = c.free
           /\ \A b \in Blocks : /\ Alone(c, x).blocks[b].page = c.blocks[b].page
                                /\ Alone(c, x).blocks[b].other = IF b = x THEN None ELSE c.blocks[b].other
  <1> DEFINE d == Alone(c, x)
             r == [c.blocks[x] EXCEPT !.other = None]
             new == Changed(c.blocks, x, r)
  <1>1. c.blocks \in BlockMaps /\ c.blocks[x] \in BlockRecs
    BY CodeFields, BlockFields
  <1>2. /\ r \in BlockRecs /\ r.page = c.blocks[x].page /\ r.first = c.blocks[x].first /\ r.last = c.blocks[x].last
        /\ r.hashed = c.blocks[x].hashed /\ r.other = None
        /\ r.to = c.blocks[x].to /\ r.from = c.blocks[x].from
    BY <1>1 DEF BlockRecs
  <1>3. d = [c EXCEPT !.blocks = new]
    BY DEF Alone
  <1> HIDE DEF r
  <1>4. new \in BlockMaps /\ \A b \in Blocks : new[b] = IF b = x THEN r ELSE c.blocks[b]
    BY <1>1, <1>2, ChangedIs
  <1> HIDE DEF new
  <1>5. /\ d \in Caches /\ d.blocks = new /\ d.code = c.code /\ d.active = c.active /\ d.free = c.free
        /\ d.write_map = c.write_map /\ d.used = c.used /\ d.active_count = c.active_count
    BY <1>3, <1>4, WithBlocks
  <1> HIDE DEF d
  <1>6. \A b \in Blocks : /\ new[b].hashed = c.blocks[b].hashed /\ new[b].to = c.blocks[b].to
                          /\ new[b].from = c.blocks[b].from /\ new[b].first = c.blocks[b].first
                          /\ new[b].last = c.blocks[b].last /\ new[b].page = c.blocks[b].page
                          /\ new[b].other = IF b = x THEN None ELSE c.blocks[b].other
    BY <1>2, <1>4
  <1>7. Linked(new, A)
    BY <1>1, <1>6, LinkedSame
  <1>8. CrossOf(new, A) = CrossOf(c.blocks, A)
    BY <1>6 DEF CrossOf
  <1>9. Conserved(d, A)
    BY <1>5, <1>8 DEF Conserved
  <1>10. Same(c, d) /\ SameMaps(c, d)
    BY <1>5, <1>6 DEF Same, SameMaps
  <1> QED
    BY <1>5, <1>6, <1>7, <1>9, <1>10 DEF d

(* The blocks over a byte can be counted. *)
LEMMA OverFinite ==
    ASSUME NEW blks, NEW p, NEW a
    PROVE  IsFiniteSet(Over(blks, p, a)) /\ Cardinality(Over(blks, p, a)) \in Nat
  <1>1. Over(blks, p, a) \subseteq Blocks
    BY DEF Over
  <1>2. IsFiniteSet(Over(blks, p, a))
    BY <1>1, CodeConstants, FS_Subset
  <1> QED
    BY <1>2, FS_CardinalityType

DelMap(c, b) == [c.write_map EXCEPT ![c.blocks[b].page] =
    [a \in Addresses |-> IF a \in c.blocks[b].first..c.blocks[b].last /\ @[a] > 0 THEN @[a] - 1 ELSE @[a]]]

(* A block less is counted over each of its bytes.                         *)
LEMMA DelCounts ==
    ASSUME NEW c \in Caches, NEW Q \in SUBSET Pages, Counted(c, Q), NEW b \in Blocks, c.blocks[b].page \in Pages,
           NEW new, NEW d, d.blocks = new, d.write_map = DelMap(c, b),
           \A x \in Blocks : /\ new[x].first = c.blocks[x].first /\ new[x].last = c.blocks[x].last
                             /\ new[x].page = IF x = b THEN None ELSE c.blocks[x].page
    PROVE  Counted(d, Q) /\ d.write_map \in [Pages -> [Addresses -> Nat]]
  <1> DEFINE p == c.blocks[b].page
             s == c.blocks[b].first
             e == c.blocks[b].last
             wm == c.write_map
  <1>1. wm \in [Pages -> [Addresses -> Nat]] /\ s \in Nat /\ e \in Nat
    <2>1. c.blocks \in BlockMaps /\ wm \in [Pages -> [Addresses -> Nat]]
      BY CodeFields
    <2>2. s \in Addresses /\ e \in Addresses
      BY <2>1, BlockFields
    <2> QED
      BY <2>1, <2>2, CodeConstants
  <1> DEFINE row == [a \in Addresses |-> IF a \in s..e /\ wm[p][a] > 0 THEN wm[p][a] - 1 ELSE wm[p][a]]
             W == [wm EXCEPT ![p] = row]
  <1>2. d.write_map = W
    BY DEF DelMap
  <1> HIDE DEF wm
  <1>5. \A q \in Pages : wm[q] \in [Addresses -> Nat]
    BY <1>1
  <1>6. row \in [Addresses -> Nat] /\ \A a \in Addresses :
             row[a] = IF a \in s..e /\ wm[p][a] > 0 THEN wm[p][a] - 1 ELSE wm[p][a]
    <2>1. \A a \in Addresses : wm[p][a] \in Nat
      BY <1>5
    <2> HIDE DEF s, e, p
    <2> QED
      BY <2>1
  <1> HIDE DEF row
  <1>3. W \in [Pages -> [Addresses -> Nat]] /\ \A q \in Pages : W[q] = IF q = p THEN row ELSE wm[q]
    BY <1>1, <1>6
  <1> HIDE DEF W
  <1>4. \A q \in Pages, a \in Addresses : d.write_map[q][a] =
             IF q = p /\ a \in s..e /\ wm[p][a] > 0 THEN wm[q][a] - 1 ELSE wm[q][a]
    BY <1>2, <1>3, <1>6
  <1>7. d.write_map \in [Pages -> [Addresses -> Nat]]
    BY <1>2, <1>3
  <1>8. \A q \in Q, a \in Addresses : wm[q][a] = Cardinality(Over(c.blocks, q, a))
    BY DEF Counted, wm
  <1>9. ASSUME NEW q \in Q, NEW a \in Addresses PROVE d.write_map[q][a] = Cardinality(Over(new, q, a))
    <2>1. q \in Pages /\ a \in Nat /\ q # None
      BY CodeConstants
    <2>2. Over(new, q, a) = Over(c.blocks, q, a) \ {b}
      BY <2>1 DEF Over
    <2>3. b \in Over(c.blocks, q, a) <=> q = p /\ a \in s..e
      BY <1>1, <2>1 DEF Over
    <2>4. IsFiniteSet(Over(c.blocks, q, a)) /\ Cardinality(Over(c.blocks, q, a)) \in Nat
      BY OverFinite
    <2>5. CASE b \in Over(c.blocks, q, a)
      <3>1. Cardinality(Over(new, q, a)) = Cardinality(Over(c.blocks, q, a)) - 1
        <4> DEFINE S == Over(c.blocks, q, a)
        <4>1. IsFiniteSet(S) /\ b \in S
          BY <2>4, <2>5
        <4> HIDE DEF S
        <4>2. Cardinality(S \ {b}) = Cardinality(S) - 1
          BY <4>1, FS_RemoveElement
        <4> QED
          BY <2>2, <4>2 DEF S
      <3>2. Cardinality(Over(c.blocks, q, a)) # 0
        BY <2>4, <2>5, FS_EmptySet
      <3>3. wm[q][a] > 0
        BY <1>8, <2>4, <3>2
      <3>4. d.write_map[q][a] = wm[q][a] - 1
        BY <1>4, <2>1, <2>3, <2>5, <3>3
      <3> QED
        BY <1>8, <3>1, <3>4
    <2>6. CASE b \notin Over(c.blocks, q, a)
      <3>1. Over(new, q, a) = Over(c.blocks, q, a)
        BY <2>2, <2>6
      <3>2. d.write_map[q][a] = wm[q][a]
        BY <1>4, <2>1, <2>3, <2>6
      <3> QED
        BY <1>8, <3>1, <3>2
    <2> QED
      BY <2>5, <2>6
  <1> QED
    BY <1>7, <1>9 DEF Counted

(* DelCacheBlock takes a block from its page, and the maps still count. *)
LEMMA DelStep ==
    ASSUME NEW c \in Caches, NEW A \in SUBSET Blocks, Linked(c.blocks, A), Conserved(c, A), NEW b \in Blocks,
           NEW Q \in SUBSET Pages, Counted(c, Q)
    PROVE  /\ DelCacheBlock(c, b) \in Caches /\ Linked(DelCacheBlock(c, b).blocks, A)
           /\ Conserved(DelCacheBlock(c, b), A) /\ Counted(DelCacheBlock(c, b), Q)
           /\ Same(c, DelCacheBlock(c, b)) /\ DelCacheBlock(c, b).free = c.free
           /\ \A x \in Blocks : /\ DelCacheBlock(c, b).blocks[x].page = IF x = b THEN None ELSE c.blocks[x].page
                                /\ DelCacheBlock(c, b).blocks[x].other = c.blocks[x].other
  <1> DEFINE d == DelCacheBlock(c, b)
             p == c.blocks[b].page
  <1>0. c.blocks \in BlockMaps /\ c.blocks[b] \in BlockRecs /\ p \in Pages \cup {None}
    BY CodeFields, BlockFields
  <1>1. CASE p = None
    <2>1. d = c
      BY <1>1 DEF DelCacheBlock
    <2> HIDE DEF d
    <2> QED
      BY <1>1, <2>1 DEF d, Same
  <1>2. CASE p # None
    <2> DEFINE r == [c.blocks[b] EXCEPT !.page = None]
               new == Changed(c.blocks, b, r)
    <2>1. p \in Pages
      BY <1>0, <1>2
    <2>2. /\ r \in BlockRecs /\ r.page = None /\ r.first = c.blocks[b].first /\ r.last = c.blocks[b].last
          /\ r.hashed = c.blocks[b].hashed /\ r.other = c.blocks[b].other
          /\ r.to = c.blocks[b].to /\ r.from = c.blocks[b].from
      BY <1>0 DEF BlockRecs
    <2> HIDE DEF r
    <2>3. new \in BlockMaps /\ \A x \in Blocks : new[x] = IF x = b THEN r ELSE c.blocks[x]
      BY <1>0, <2>2, ChangedIs
    <2> HIDE DEF new
    <2>4. /\ d.blocks = new /\ d.code = c.code /\ d.active = c.active /\ d.free = c.free
          /\ d.write_map = DelMap(c, b) /\ d.used = c.used
          /\ d.active_count = [c.active_count EXCEPT ![p] = ReleaseDelay]
          /\ d = [blocks |-> d.blocks, code |-> d.code, active |-> d.active, free |-> d.free,
                  write_map |-> d.write_map, used |-> d.used, active_count |-> d.active_count]
      <3>1. d = [c EXCEPT !.write_map = DelMap(c, b), !.active_count = [c.active_count EXCEPT ![p] = ReleaseDelay],
                          !.blocks = new]
        BY <1>2 DEF DelCacheBlock, DelMap, new, r
      <3> HIDE DEF d
      <3> QED
        BY <3>1 DEF Caches
    <2>5. \A x \in Blocks : /\ new[x].hashed = c.blocks[x].hashed /\ new[x].to = c.blocks[x].to
                            /\ new[x].from = c.blocks[x].from /\ new[x].first = c.blocks[x].first
                            /\ new[x].last = c.blocks[x].last /\ new[x].other = c.blocks[x].other
                            /\ new[x].page = IF x = b THEN None ELSE c.blocks[x].page
      BY <2>2, <2>3
    <2> HIDE DEF d
    <2>6. Counted(d, Q) /\ d.write_map \in [Pages -> [Addresses -> Nat]]
      <3> HIDE DEF p
      <3>1. c.blocks[b].page \in Pages
        BY <2>1 DEF p
      <3> QED
        BY <2>4, <2>5, <3>1, DelCounts
    <2>7. d.active_count \in [Pages -> 1..ReleaseDelay]
      BY <2>1, <2>4, CodeFields, CodeConstants
    <2>8. d \in Caches
      BY <2>3, <2>4, <2>6, <2>7, CodeFields DEF Caches
    <2>9. Linked(new, A)
      BY <1>0, <2>5, LinkedSame
    <2>10. CrossOf(new, A) = CrossOf(c.blocks, A)
      BY <2>5 DEF CrossOf
    <2>11. Conserved(d, A)
      BY <2>4, <2>10 DEF Conserved
    <2>12. Same(c, d)
      BY <2>4, <2>5 DEF Same
    <2> QED
      BY <2>4, <2>5, <2>6, <2>8, <2>9, <2>11, <2>12 DEF d
  <1> QED
    BY <1>1, <1>2
-----------------------------------------------------------------------------
(* A cache whose blocks in A are alive, and whose maps count in Q.         *)
Well(c, A, Q) ==
    /\ c \in Caches /\ A \in SUBSET Blocks /\ Q \in SUBSET Pages
    /\ Linked(c.blocks, A) /\ Paired(c.blocks, A) /\ Stretches(c.blocks)
    /\ Conserved(c, A) /\ Counted(c, Q) /\ Handled(c)

(* Same from step to step. *)
LEMMA SameTrans == ASSUME NEW c, NEW d, NEW e, Same(c, d), Same(d, e) PROVE Same(c, e)
  BY DEF Same

(* Handlers suffice for fewer blocks. *)
LEMMA SameHandled ==
    ASSUME NEW c, NEW d, Same(c, d), Handled(c), \A b \in Blocks : d.blocks[b].page \in {c.blocks[b].page, None}
    PROVE  Handled(d)
  BY DEF Same, Handled, HasHandler

(* Stretches stay as they are. *)
LEMMA SameStretches == ASSUME NEW c, NEW d, Same(c, d), Stretches(c.blocks) PROVE Stretches(d.blocks)
  BY DEF Same, Stretches

(* Cleared, but for those in B. *)
Cleared(c, d, B) ==
    /\ Same(c, d) /\ c.free \subseteq d.free
    /\ \A x \in B : d.blocks[x].page = c.blocks[x].page /\ d.blocks[x].other = c.blocks[x].other

(* Clear of a block without a pair. *)
LEMMA ClearOne ==
    ASSUME NEW c, NEW A, NEW Q, Well(c, A, Q), NEW b \in A, c.blocks[b].other = None
    PROVE  Well(Clear(c, b), A \ {b}, Q) /\ Cleared(c, Clear(c, b), A \ {b})
  <1> DEFINE u == Drop(c, b)
             d == DelCacheBlock(u, b)
             B == A \ {b}
  <1>0. /\ c \in Caches /\ A \in SUBSET Blocks /\ Q \in SUBSET Pages
        /\ Linked(c.blocks, A) /\ Paired(c.blocks, A) /\ Stretches(c.blocks)
        /\ Conserved(c, A) /\ Counted(c, Q) /\ Handled(c)
    BY DEF Well
  <1>1. Clear(c, b) = d
    BY DEF Clear
  <1>2. /\ u \in Caches /\ Linked(u.blocks, B) /\ Conserved(u, B)
        /\ Same(c, u) /\ SameAbout(c, u) /\ SameMaps(c, u) /\ c.free \subseteq u.free
    BY <1>0, DropStep
  <1> HIDE DEF u
  <1>3. Counted(u, Q)
    BY <1>0, <1>2 DEF Counted, Over, Same, SameAbout, SameMaps
  <1>4. /\ d \in Caches /\ Linked(d.blocks, B) /\ Conserved(d, B) /\ Counted(d, Q) /\ Same(u, d) /\ d.free = u.free
        /\ \A x \in Blocks : /\ d.blocks[x].page = IF x = b THEN None ELSE u.blocks[x].page
                             /\ d.blocks[x].other = u.blocks[x].other
    BY <1>0, <1>2, <1>3, DelStep
  <1> HIDE DEF d
  <1>5. /\ Same(c, d) /\ c.free \subseteq d.free
        /\ \A x \in Blocks : /\ d.blocks[x].page = IF x = b THEN None ELSE c.blocks[x].page
                             /\ d.blocks[x].other = c.blocks[x].other
    BY <1>2, <1>4, SameTrans DEF SameAbout
  <1>6. Stretches(d.blocks) /\ Handled(d)
    BY <1>0, <1>5, SameHandled, SameStretches
  <1>7. Paired(d.blocks, B)
    <2>1. ASSUME NEW x \in B, d.blocks[x].other # None
          PROVE  LET o == d.blocks[x].other
                 IN  /\ o \in B /\ d.blocks[o].other = x /\ d.blocks[o].hashed # d.blocks[x].hashed
                     /\ d.blocks[o].page # d.blocks[x].page
      <3> DEFINE o == c.blocks[x].other
      <3>1. /\ x \in A /\ x # b /\ o # None /\ d.blocks[x].other = o
        BY <1>0, <1>5, <2>1
      <3>2. /\ o \in A /\ c.blocks[o].other = x /\ c.blocks[o].hashed # c.blocks[x].hashed
            /\ c.blocks[o].page # c.blocks[x].page
        BY <1>0, <3>1 DEF Paired
      <3> HIDE DEF o
      <3>3. x # None
        BY <1>0, <3>1, CodeConstants
      <3>4. o # b
        BY <3>2, <3>3
      <3>5. x \in Blocks /\ o \in Blocks
        BY <1>0, <3>1, <3>2
      <3>6. /\ d.blocks[o].other = x /\ d.blocks[o].page = c.blocks[o].page /\ d.blocks[x].page = c.blocks[x].page
            /\ d.blocks[o].hashed = c.blocks[o].hashed /\ d.blocks[x].hashed = c.blocks[x].hashed
        BY <1>5, <3>1, <3>2, <3>4, <3>5 DEF Same
      <3> QED
        BY <3>1, <3>2, <3>4, <3>6
    <2>2. \A x \in Blocks \ B : d.blocks[x].other = None /\ d.blocks[x].page = None
      BY <1>0, <1>5 DEF Paired
    <2> QED
      BY <2>1, <2>2 DEF Paired
  <1>8. Well(d, B, Q)
    BY <1>0, <1>4, <1>6, <1>7 DEF Well
  <1>9. Cleared(c, d, B)
    BY <1>0, <1>5 DEF Cleared
  <1> QED
    BY <1>1, <1>8, <1>9

(* Clear of a block of a pair clears both. *)
LEMMA ClearTwo ==
    ASSUME NEW c, NEW A, NEW Q, Well(c, A, Q), NEW b \in A, NEW o, c.blocks[b].other = o, o # None
    PROVE  Well(Clear(c, b), A \ {b, o}, Q) /\ Cleared(c, Clear(c, b), A \ {b, o})
  <1> DEFINE c1 == Drop(c, b)
             c2 == Alone(c1, o)
             c3 == Alone(c2, b)
             c4 == Drop(c3, o)
             c5 == DelCacheBlock(c4, o)
             d  == DelCacheBlock(c5, b)
             A1 == A \ {b}
             B  == A1 \ {o}
  <1>0. /\ c \in Caches /\ A \in SUBSET Blocks /\ Q \in SUBSET Pages
        /\ Linked(c.blocks, A) /\ Paired(c.blocks, A) /\ Stretches(c.blocks)
        /\ Conserved(c, A) /\ Counted(c, Q) /\ Handled(c)
    BY DEF Well
  <1>1. o \in A /\ c.blocks[o].other = b /\ c.blocks[o].hashed # c.blocks[b].hashed
    BY <1>0 DEF Paired
  <1>2. o # b /\ o \in A1 /\ o \in Blocks /\ b \in Blocks /\ A1 \in SUBSET Blocks /\ B \in SUBSET Blocks
    BY <1>0, <1>1
  <1>3. Clear(c, b) = d
    BY DEF Clear, Alone
  <1>4. /\ c1 \in Caches /\ Linked(c1.blocks, A1) /\ Conserved(c1, A1)
        /\ Same(c, c1) /\ SameAbout(c, c1) /\ SameMaps(c, c1) /\ c.free \subseteq c1.free
    BY <1>0, DropStep
  <1> HIDE DEF A1, c1
  <1>5. /\ c2 \in Caches /\ Linked(c2.blocks, A1) /\ Conserved(c2, A1)
        /\ Same(c1, c2) /\ SameMaps(c1, c2) /\ c2.free = c1.free
        /\ \A x \in Blocks : /\ c2.blocks[x].page = c1.blocks[x].page
                             /\ c2.blocks[x].other = IF x = o THEN None ELSE c1.blocks[x].other
    BY <1>2, <1>4, AloneStep
  <1> HIDE DEF c2
  <1>6. /\ c3 \in Caches /\ Linked(c3.blocks, A1) /\ Conserved(c3, A1)
        /\ Same(c2, c3) /\ SameMaps(c2, c3) /\ c3.free = c2.free
        /\ \A x \in Blocks : /\ c3.blocks[x].page = c2.blocks[x].page
                             /\ c3.blocks[x].other = IF x = b THEN None ELSE c2.blocks[x].other
    BY <1>2, <1>5, AloneStep
  <1> HIDE DEF c3
  <1>7. /\ c4 \in Caches /\ Linked(c4.blocks, B) /\ Conserved(c4, B)
        /\ Same(c3, c4) /\ SameAbout(c3, c4) /\ SameMaps(c3, c4) /\ c3.free \subseteq c4.free
    BY <1>2, <1>6, DropStep
  <1> HIDE DEF c4, B
  <1>8. /\ Same(c, c4) /\ c4.write_map = c.write_map /\ c.free \subseteq c4.free
        /\ \A x \in Blocks : /\ c4.blocks[x].page = c.blocks[x].page
                             /\ c4.blocks[x].other = IF x \in {b, o} THEN None ELSE c.blocks[x].other
    BY <1>2, <1>4, <1>5, <1>6, <1>7, SameTrans DEF SameAbout, SameMaps
  <1>9. Counted(c4, Q)
    BY <1>0, <1>8 DEF Counted, Over, Same
  <1>10. /\ c5 \in Caches /\ Linked(c5.blocks, B) /\ Conserved(c5, B) /\ Counted(c5, Q) /\ Same(c4, c5)
         /\ c5.free = c4.free
         /\ \A x \in Blocks : /\ c5.blocks[x].page = IF x = o THEN None ELSE c4.blocks[x].page
                              /\ c5.blocks[x].other = c4.blocks[x].other
    BY <1>0, <1>2, <1>7, <1>9, DelStep
  <1> HIDE DEF c5
  <1>11. /\ d \in Caches /\ Linked(d.blocks, B) /\ Conserved(d, B) /\ Counted(d, Q) /\ Same(c5, d)
         /\ d.free = c5.free
         /\ \A x \in Blocks : /\ d.blocks[x].page = IF x = b THEN None ELSE c5.blocks[x].page
                              /\ d.blocks[x].other = c5.blocks[x].other
    BY <1>0, <1>2, <1>10, DelStep
  <1> HIDE DEF d
  <1>12. /\ Same(c, d) /\ c.free \subseteq d.free
         /\ \A x \in Blocks : /\ d.blocks[x].page = IF x \in {b, o} THEN None ELSE c.blocks[x].page
                              /\ d.blocks[x].other = IF x \in {b, o} THEN None ELSE c.blocks[x].other
    BY <1>8, <1>10, <1>11, SameTrans
  <1>13. Stretches(d.blocks) /\ Handled(d)
    BY <1>0, <1>12, SameHandled, SameStretches
  <1>14. B = A \ {b, o}
    BY DEF A1, B
  <1>15. Paired(d.blocks, B)
    <2>1. ASSUME NEW x \in B, d.blocks[x].other # None
          PROVE  LET y == d.blocks[x].other
                 IN  /\ y \in B /\ d.blocks[y].other = x /\ d.blocks[y].hashed # d.blocks[x].hashed
                     /\ d.blocks[y].page # d.blocks[x].page
      <3> DEFINE y == c.blocks[x].other
      <3>1. /\ x \in A /\ x \notin {b, o} /\ x \in Blocks /\ y # None /\ d.blocks[x].other = y
        BY <1>0, <1>12, <1>14, <2>1
      <3>2. /\ y \in A /\ c.blocks[y].other = x /\ c.blocks[y].hashed # c.blocks[x].hashed
            /\ c.blocks[y].page # c.blocks[x].page
        BY <1>0, <3>1 DEF Paired
      <3> HIDE DEF y
      <3>4. y \notin {b, o}
        BY <1>1, <3>1, <3>2
      <3>5. y \in Blocks
        BY <1>0, <3>2
      <3>6. /\ d.blocks[y].other = x /\ d.blocks[y].page = c.blocks[y].page /\ d.blocks[x].page = c.blocks[x].page
            /\ d.blocks[y].hashed = c.blocks[y].hashed /\ d.blocks[x].hashed = c.blocks[x].hashed
        BY <1>12, <3>1, <3>2, <3>4, <3>5 DEF Same
      <3> QED
        BY <1>14, <3>1, <3>2, <3>4, <3>6
    <2>2. \A x \in Blocks \ B : d.blocks[x].other = None /\ d.blocks[x].page = None
      BY <1>0, <1>12, <1>14 DEF Paired
    <2> QED
      BY <2>1, <2>2 DEF Paired
  <1>16. Well(d, B, Q)
    BY <1>0, <1>2, <1>11, <1>13, <1>15 DEF Well
  <1>17. Cleared(c, d, B)
    BY <1>0, <1>12, <1>14 DEF Cleared
  <1> QED
    BY <1>3, <1>14, <1>16, <1>17
-----------------------------------------------------------------------------
(* Blocks cleared one after the other, in the order of their choice.       *)
One(T) == CHOOSE x \in T : TRUE

(* With g only those that are alive when it is their turn.                 *)
ClearNext(g, c, b) == IF g /\ ~IsLive(c, b) THEN c ELSE Clear(c, b)

ClearFold(f, g, c, R) == [T \in R |-> IF T = {} THEN c ELSE ClearNext(g, f[T \ {One(T)}], One(T))]

(* A set of naturals that is not empty has a least one. *)
LEMMA LeastNatural ==
    ASSUME NEW T \in SUBSET Nat, T # {} PROVE \E m \in T : \A n \in T : m <= n
  <1>1. PICK m \in T : \A n \in T : <<n, m>> \notin OpToRel(<, Nat)
    BY Zenon, WFMin, NatLessThanWellFounded
  <1>2. \A n \in T : ~ (n < m)
    BY <1>1 DEF OpToRel
  <1> QED
    BY <1>2

(* One member of a set that has any. *)
LEMMA OneIn == ASSUME NEW T, T # {} PROVE One(T) \in T
  BY DEF One

(* The fold over a finite set is a function that satisfies its own definition. *)
LEMMA FoldExists ==
    ASSUME NEW g, NEW c, NEW S, IsFiniteSet(S)
    PROVE  \E f : f = ClearFold(f, g, c, SUBSET S)
  <1> DEFINE Small(n) == {T \in SUBSET S : Cardinality(T) <= n}
             Bad == {n \in Nat : ~ \E f : f = ClearFold(f, g, c, Small(n))}
  <1>1. \A T \in SUBSET S : /\ IsFiniteSet(T) /\ Cardinality(T) \in Nat /\ Cardinality(T) <= Cardinality(S)
                            /\ \A x \in T : Cardinality(T \ {x}) = Cardinality(T) - 1
    BY FS_Subset, FS_CardinalityType, FS_RemoveElement
  <1>2. Bad = {}
    <2> SUFFICES ASSUME Bad # {} PROVE FALSE
      OBVIOUS
    <2>1. PICK n \in Bad : \A m \in Bad : n <= m
      <3>1. Bad \in SUBSET Nat
        OBVIOUS
      <3> HIDE DEF Bad
      <3> QED
        BY <3>1, LeastNatural
    <2>2. n \in Nat /\ ~ \E f : f = ClearFold(f, g, c, Small(n))
      BY <2>1
    <2>3. CASE n = 0
      <3>1. \A T \in Small(n) : T = {}
        BY <1>1, <2>3, FS_EmptySet
      <3> HIDE DEF Small
      <3> DEFINE f == [T \in Small(n) |-> c]
      <3>2. ClearFold(f, g, c, Small(n)) = f
        BY <3>1 DEF ClearFold
      <3> QED
        BY <2>2, <3>2
    <2>4. CASE n # 0
      <3>1. n - 1 \in Nat /\ n - 1 \notin Bad
        <4>1. n - 1 \in Nat /\ ~ (n <= n - 1)
          BY <2>2, <2>4
        <4> HIDE DEF Bad
        <4> QED
          BY <2>1, <4>1
      <3>2. PICK f : f = ClearFold(f, g, c, Small(n - 1))
        BY <3>1
      <3> DEFINE new == ClearFold(f, g, c, Small(n))
      <3>3. \A T \in Small(n - 1) : T \in Small(n)
        BY <1>1, <2>2
      <3>4. \A T \in Small(n) : T # {} => T \ {One(T)} \in Small(n - 1)
        <4> SUFFICES ASSUME NEW T \in Small(n), T # {} PROVE T \ {One(T)} \in Small(n - 1)
          OBVIOUS
        <4>1. One(T) \in T
          BY OneIn
        <4>2. T \in SUBSET S /\ Cardinality(T) <= n
          OBVIOUS
        <4>3. Cardinality(T \ {One(T)}) = Cardinality(T) - 1
          BY <1>1, <4>1, <4>2
        <4> QED
          BY <1>1, <2>2, <4>2, <4>3
      <3> HIDE DEF Small
      <3>5. \A T \in Small(n - 1) : f[T] = IF T = {} THEN c ELSE ClearNext(g, f[T \ {One(T)}], One(T))
        BY <3>2 DEF ClearFold
      <3>6. \A T \in Small(n) : new[T] = IF T = {} THEN c ELSE ClearNext(g, f[T \ {One(T)}], One(T))
        BY DEF ClearFold
      <3>7. \A T \in Small(n - 1) : new[T] = f[T]
        BY <3>3, <3>5, <3>6
      <3>8. \A T \in Small(n) : T # {} => new[T \ {One(T)}] = f[T \ {One(T)}]
        BY <3>4, <3>7
      <3>9. new = ClearFold(new, g, c, Small(n))
        <4>1. new = [T \in Small(n) |-> new[T]]
          BY DEF ClearFold
        <4>2. ClearFold(new, g, c, Small(n)) =
                 [T \in Small(n) |-> IF T = {} THEN c ELSE ClearNext(g, new[T \ {One(T)}], One(T))]
          BY DEF ClearFold
        <4> HIDE DEF new
        <4>3. \A T \in Small(n) : new[T] = IF T = {} THEN c ELSE ClearNext(g, new[T \ {One(T)}], One(T))
          BY <3>6, <3>8
        <4> QED
          BY <4>1, <4>2, <4>3
      <3> QED
        BY <2>2, <3>9
    <2> QED
      BY <2>3, <2>4
  <1>3. Cardinality(S) \in Nat
    BY FS_CardinalityType
  <1>4. Small(Cardinality(S)) = SUBSET S
    BY <1>1
  <1>5. \E f : f = ClearFold(f, g, c, Small(Cardinality(S)))
    BY <1>2, <1>3
  <1> QED
    BY <1>4, <1>5

(* ClearAll is that fold. *)
LEMMA ClearAllIs ==
    ASSUME NEW c, NEW S, IsFiniteSet(S)
    PROVE  \E f : f = ClearFold(f, FALSE, c, SUBSET S) /\ ClearAll(c, S) = f[S]
  <1> DEFINE Body(f) == [T \in SUBSET S |-> IF T = {} THEN c ELSE Clear(f[T \ {One(T)}], One(T))]
             f0 == CHOOSE f : f = Body(f)
  <1>1. ClearAll(c, S) = f0[S]
    BY DEF ClearAll, FoldSet, MapThenFoldSet, One
  <1>2. \A f : ClearFold(f, FALSE, c, SUBSET S) = Body(f)
    BY DEF ClearFold, ClearNext
  <1>3. \E f : f = Body(f)
    <2>1. PICK f : f = ClearFold(f, FALSE, c, SUBSET S)
      BY FoldExists
    <2> HIDE DEF Body
    <2> QED
      BY <1>2, <2>1
  <1> HIDE DEF Body
  <1>4. f0 = Body(f0)
    BY <1>3
  <1> QED
    BY <1>1, <1>2, <1>4

(* The fold of cache_openblock. *)
ClearLive(c, S) == FoldSet(LAMBDA b, acc : IF IsLive(acc, b) THEN Clear(acc, b) ELSE acc, c, S)

(* So is the loop of cache_openblock, which clears what is alive. *)
LEMMA ClearLiveIs ==
    ASSUME NEW c, NEW S, IsFiniteSet(S)
    PROVE  \E f : f = ClearFold(f, TRUE, c, SUBSET S) /\ ClearLive(c, S) = f[S]
  <1> DEFINE Body(f) == [T \in SUBSET S |-> IF T = {} THEN c
                 ELSE IF IsLive(f[T \ {One(T)}], One(T)) THEN Clear(f[T \ {One(T)}], One(T)) ELSE f[T \ {One(T)}]]
             f0 == CHOOSE f : f = Body(f)
  <1>1. ClearLive(c, S) = f0[S]
    BY DEF ClearLive, FoldSet, MapThenFoldSet, One
  <1>2. \A f : ClearFold(f, TRUE, c, SUBSET S) = Body(f)
    BY DEF ClearFold, ClearNext
  <1>3. \E f : f = Body(f)
    <2>1. PICK f : f = ClearFold(f, TRUE, c, SUBSET S)
      BY FoldExists
    <2> HIDE DEF Body
    <2> QED
      BY <1>2, <2>1
  <1> HIDE DEF Body
  <1>4. f0 = Body(f0)
    BY <1>3
  <1> QED
    BY <1>1, <1>2, <1>4

(* Cleared from step to step. *)
LEMMA ClearedTrans ==
    ASSUME NEW c, NEW d, NEW e, NEW B, NEW C, C \subseteq B, Cleared(c, d, B), Cleared(d, e, C)
    PROVE  Cleared(c, e, C)
  BY SameTrans DEF Cleared

(* Clear, whether there is a pair or not. *)
LEMMA ClearWell ==
    ASSUME NEW c, NEW A, NEW Q, Well(c, A, Q), NEW b \in A
    PROVE  Well(Clear(c, b), A \ {b, c.blocks[b].other}, Q) /\ Cleared(c, Clear(c, b), A \ {b, c.blocks[b].other})
  <1>1. CASE c.blocks[b].other = None
    <2>1. None \notin A
      BY CodeConstants DEF Well
    <2>2. A \ {b, None} = A \ {b}
      BY <2>1
    <2> QED
      BY <1>1, <2>2, ClearOne
  <1>2. CASE c.blocks[b].other # None
    <2> DEFINE o == c.blocks[b].other
    <2>1. o = c.blocks[b].other /\ o # None
      BY <1>2
    <2> HIDE DEF o
    <2>2. Well(Clear(c, b), A \ {b, o}, Q) /\ Cleared(c, Clear(c, b), A \ {b, o})
      BY <2>1, ClearTwo
    <2> QED
      BY <2>1, <2>2
  <1> QED
    BY <1>1, <1>2

(* A cache is itself with nothing cleared. *)
LEMMA ClearedNothing == ASSUME NEW c, NEW A PROVE Cleared(c, c, A)
  BY DEF Cleared, Same

(* What is left of A when the blocks of T, among those of S, were cleared. *)
Left(c, d, A, S, T, Q, B) ==
    /\ Well(d, B, Q) /\ Cleared(c, d, B) /\ B \subseteq A /\ B \cap T = {} /\ (S \cap A) \ T \subseteq B

(* One more block of the fold. *)
LEMMA FoldNext ==
    ASSUME NEW c, NEW A, NEW Q, NEW S \in SUBSET Blocks,
           \A b \in S \cap A : c.blocks[b].other \notin S,
           NEW g \in BOOLEAN, g => \A b \in A : c.blocks[b].page # None, ~g => S \subseteq A,
           NEW T \in SUBSET S, NEW x \in T, NEW d, NEW B, Left(c, d, A, S, T \ {x}, Q, B)
    PROVE  \E C : Left(c, ClearNext(g, d, x), A, S, T, Q, C)
  <1>1. /\ Well(d, B, Q) /\ Cleared(c, d, B) /\ B \subseteq A /\ B \cap (T \ {x}) = {}
        /\ (S \cap A) \ (T \ {x}) \subseteq B
    BY DEF Left
  <1>2. B \in SUBSET Blocks /\ \A b \in Blocks \ B : d.blocks[b].page = None
    BY <1>1 DEF Well, Paired
  <1>3. CASE x \in A
    <2> DEFINE o == d.blocks[x].other
               e == Clear(d, x)
               C == B \ {x, o}
    <2>1. x \in B
      BY <1>1, <1>3
    <2>2. Well(e, C, Q) /\ Cleared(d, e, C)
      BY <1>1, <2>1, ClearWell
    <2>3. o = c.blocks[x].other /\ d.blocks[x].page = c.blocks[x].page
      BY <1>1, <2>1 DEF Cleared
    <2>4. o \notin S
      BY <1>3, <2>3
    <2>5. ClearNext(g, d, x) = e
      BY <1>3, <2>3 DEF ClearNext, IsLive
    <2> HIDE DEF e, o
    <2>6. Cleared(c, e, C)
      BY <1>1, <2>2, ClearedTrans
    <2>7. C \subseteq A /\ C \cap T = {} /\ (S \cap A) \ T \subseteq C
      BY <1>1, <2>4
    <2> QED
      BY <2>2, <2>5, <2>6, <2>7 DEF Left
  <1>4. CASE x \notin A
    <2>1. g /\ x \in Blocks \ B
      BY <1>1, <1>4
    <2>2. ClearNext(g, d, x) = d
      BY <1>2, <2>1 DEF ClearNext, IsLive
    <2>3. B \cap T = {} /\ (S \cap A) \ T \subseteq B
      BY <1>1, <1>4
    <2> QED
      BY <1>1, <2>2, <2>3 DEF Left
  <1> QED
    BY <1>3, <1>4

(* The whole fold: the blocks of S are gone, and their pairs. *)
LEMMA FoldClears ==
    ASSUME NEW c, NEW A, NEW Q, Well(c, A, Q), NEW S \in SUBSET Blocks,
           \A b \in S \cap A : c.blocks[b].other \notin S,
           NEW g \in BOOLEAN, g => \A b \in A : c.blocks[b].page # None, ~g => S \subseteq A,
           NEW f, f = ClearFold(f, g, c, SUBSET S)
    PROVE  \E B : Left(c, f[S], A, S, S, Q, B)
  <1>1. \A T \in SUBSET S : f[T] = IF T = {} THEN c ELSE ClearNext(g, f[T \ {One(T)}], One(T))
    BY DEF ClearFold
  <1>2. \A T \in SUBSET S : /\ IsFiniteSet(T) /\ Cardinality(T) \in Nat
                            /\ \A x \in T : Cardinality(T \ {x}) = Cardinality(T) - 1
    BY CodeConstants, FS_Subset, FS_CardinalityType, FS_RemoveElement
  <1> DEFINE Good(T) == \E B : Left(c, f[T], A, S, T, Q, B)
             Bad == {n \in Nat : \E T \in SUBSET S : Cardinality(T) = n /\ ~Good(T)}
  <1>3. Bad = {}
    <2> SUFFICES ASSUME Bad # {} PROVE FALSE
      OBVIOUS
    <2>1. PICK n \in Bad : \A m \in Bad : n <= m
      <3>1. Bad \in SUBSET Nat
        OBVIOUS
      <3> HIDE DEF Bad
      <3> QED
        BY <3>1, LeastNatural
    <2>2. PICK T \in SUBSET S : Cardinality(T) = n /\ ~Good(T)
      BY <2>1
    <2>3. T # {}
      <3> SUFFICES ASSUME T = {} PROVE FALSE
        OBVIOUS
      <3>1. f[T] = c
        BY <1>1
      <3>2. Cleared(c, c, A)
        BY ClearedNothing
      <3>3. Left(c, f[T], A, S, T, Q, A)
        BY <3>1, <3>2 DEF Left
      <3> QED
        BY <2>2, <3>3
    <2> DEFINE x == One(T)
               U == T \ {x}
    <2>4. x \in T /\ U \in SUBSET S /\ Cardinality(U) = n - 1 /\ n - 1 \in Nat
      <3>1. x \in T
        BY <2>3, OneIn
      <3> HIDE DEF x
      <3>2. Cardinality(U) = n - 1 /\ Cardinality(U) \in Nat
        BY <1>2, <2>2, <3>1
      <3> QED
        BY <3>1, <3>2
    <2>5. f[T] = ClearNext(g, f[U], x)
      BY <1>1, <2>3
    <2> HIDE DEF x
    <2>6. Good(U)
      <3>1. ~ (n <= n - 1)
        BY <2>1, <2>4
      <3>2. n - 1 \notin Bad
        <4> HIDE DEF Bad
        <4> QED
          BY <2>1, <3>1
      <3> QED
        BY <2>4, <3>2
    <2>7. PICK B : Left(c, f[U], A, S, T \ {x}, Q, B)
      BY <2>6
    <2> DEFINE d == f[U]
    <2>8. Left(c, d, A, S, T \ {x}, Q, B)
      BY <2>7
    <2> HIDE DEF d
    <2>9. \E C : Left(c, ClearNext(g, d, x), A, S, T, Q, C)
      BY <2>4, <2>8, FoldNext
    <2> QED
      BY <2>2, <2>5, <2>9 DEF d
  <1>4. Cardinality(S) \in Nat
    BY <1>2
  <1> QED
    BY <1>3, <1>4
-----------------------------------------------------------------------------
(* The cache between two calls, in which the blocks that stand for         *)
(* something are alive.                                                    *)
LiveIn(c) == {b \in Blocks : c.blocks[b].page # None}

(* What is left is what is alive. *)
LEMMA LeftAlive ==
    ASSUME NEW c, NEW A, NEW Q, NEW S \in SUBSET Blocks, NEW d, NEW B, Left(c, d, A, S, S, Q, B),
           \A b \in A \ S : c.blocks[b].page # None
    PROVE  Well(d, LiveIn(d), Q) /\ Cleared(c, d, LiveIn(d)) /\ LiveIn(d) \subseteq A \ S
  <1>1. Well(d, B, Q) /\ Cleared(c, d, B) /\ B \subseteq A \ S
    BY DEF Left
  <1>2. B \in SUBSET Blocks /\ \A b \in Blocks \ B : d.blocks[b].page = None
    BY <1>1 DEF Well, Paired
  <1>3. \A b \in B : d.blocks[b].page # None
    BY <1>1 DEF Cleared
  <1>4. LiveIn(d) = B
    BY <1>2, <1>3 DEF LiveIn
  <1> QED
    BY <1>1, <1>4

(* ClearAll of blocks no two of which are a pair. *)
LEMMA ClearAllWell ==
    ASSUME NEW c, NEW A, NEW Q, Well(c, A, Q), NEW S \in SUBSET Blocks, S \subseteq A,
           \A b \in S : c.blocks[b].other \notin S, \A b \in A \ S : c.blocks[b].page # None,
           NEW d, d = ClearAll(c, S)
    PROVE  Well(d, LiveIn(d), Q) /\ Cleared(c, d, LiveIn(d)) /\ LiveIn(d) \subseteq A \ S
  <1>1. IsFiniteSet(S)
    BY CodeConstants, FS_Subset
  <1>2. PICK f : f = ClearFold(f, FALSE, c, SUBSET S) /\ ClearAll(c, S) = f[S]
    BY <1>1, ClearAllIs
  <1> DEFINE g == FALSE
  <1>3. g \in BOOLEAN /\ ~g /\ f = ClearFold(f, g, c, SUBSET S)
    BY <1>2
  <1> HIDE DEF g
  <1>4. \A b \in S \cap A : c.blocks[b].other \notin S
    OBVIOUS
  <1>5. PICK B : Left(c, f[S], A, S, S, Q, B)
    BY <1>3, <1>4, FoldClears
  <1> QED
    BY <1>2, <1>5, LeftAlive

(* The same for the loop that looks whether a block is alive. *)
LEMMA ClearLiveWell ==
    ASSUME NEW c, NEW Q, Well(c, LiveIn(c), Q), NEW S \in SUBSET Blocks,
           \A b \in S \cap LiveIn(c) : c.blocks[b].other \notin S,
           NEW d, d = ClearLive(c, S)
    PROVE  Well(d, LiveIn(d), Q) /\ Cleared(c, d, LiveIn(d)) /\ LiveIn(d) \subseteq LiveIn(c) \ S
  <1>1. IsFiniteSet(S)
    BY CodeConstants, FS_Subset
  <1>2. PICK f : f = ClearFold(f, TRUE, c, SUBSET S) /\ ClearLive(c, S) = f[S]
    BY <1>1, ClearLiveIs
  <1> DEFINE g == TRUE
             A == LiveIn(c)
  <1>3. g \in BOOLEAN /\ g /\ f = ClearFold(f, g, c, SUBSET S)
    BY <1>2
  <1>4. \A b \in A : c.blocks[b].page # None
    BY DEF LiveIn
  <1>5. Well(c, A, Q) /\ \A b \in S \cap A : c.blocks[b].other \notin S
    OBVIOUS
  <1> HIDE DEF g, A
  <1>6. PICK B : Left(c, f[S], A, S, S, Q, B)
    BY <1>3, <1>4, <1>5, FoldClears
  <1> QED
    BY <1>2, <1>4, <1>6, LeftAlive DEF A
-----------------------------------------------------------------------------
(* A write clears what covers it.                                          *)
Hits(c, p, s, e, h) == {b \in Blocks : Covers(c, b, p, s, e) /\ HashIndex(c, b) = h}

InvNext(c, p, s, e, h) == IF \A a \in s..e : c.write_map[p][a] = 0 THEN c ELSE ClearAll(c, Hits(c, p, s, e, h))

InvFold(f, c, p, s, e, top, N) ==
    [n \in 0..N |-> IF n = 0 THEN c ELSE InvNext(f[n - 1], p, s, e, top - (n - 1))]

(* The search of the lists is a function that satisfies its own definition. *)
LEMMA InvFoldExists ==
    ASSUME NEW c, NEW p, NEW s, NEW e, NEW top, NEW N \in Nat
    PROVE  \E f : f = InvFold(f, c, p, s, e, top, N)
  <1> DEFINE Bad == {n \in Nat : ~ \E f : f = InvFold(f, c, p, s, e, top, n)}
  <1> SUFFICES ASSUME Bad # {} PROVE FALSE
    OBVIOUS
  <1>1. PICK n \in Bad : \A m \in Bad : n <= m
    <2>1. Bad \in SUBSET Nat
      OBVIOUS
    <2> HIDE DEF Bad
    <2> QED
      BY <2>1, LeastNatural
  <1>2. n \in Nat /\ ~ \E f : f = InvFold(f, c, p, s, e, top, n)
    BY <1>1
  <1>3. CASE n = 0
    <2> DEFINE f == [m \in 0..0 |-> c]
    <2>1. InvFold(f, c, p, s, e, top, 0) = f
      BY DEF InvFold
    <2> QED
      BY <1>2, <1>3, <2>1
  <1>4. CASE n # 0
    <2>1. n - 1 \in Nat /\ n - 1 \notin Bad
      <3>1. n - 1 \in Nat /\ ~ (n <= n - 1)
        BY <1>2, <1>4
      <3> HIDE DEF Bad
      <3> QED
        BY <1>1, <3>1
    <2>2. PICK f : f = InvFold(f, c, p, s, e, top, n - 1)
      BY <2>1
    <2> DEFINE new == InvFold(f, c, p, s, e, top, n)
    <2>3. \A m \in 0..(n - 1) : f[m] = IF m = 0 THEN c ELSE InvNext(f[m - 1], p, s, e, top - (m - 1))
      BY <2>2 DEF InvFold
    <2>4. \A m \in 0..n : new[m] = IF m = 0 THEN c ELSE InvNext(f[m - 1], p, s, e, top - (m - 1))
      BY DEF InvFold
    <2>6. \A m \in 0..(n - 1) : m \in 0..n /\ new[m] = f[m]
      <3>1. \A m \in 0..(n - 1) : m \in 0..n
        BY <1>2
      <3> HIDE DEF new
      <3> QED
        BY <2>3, <2>4, <3>1
    <2>7. \A m \in 0..n : m # 0 => m - 1 \in 0..(n - 1)
      BY <1>2
    <2>8. new = [m \in 0..n |-> new[m]]
      BY DEF InvFold
    <2>9. InvFold(new, c, p, s, e, top, n) =
             [m \in 0..n |-> IF m = 0 THEN c ELSE InvNext(new[m - 1], p, s, e, top - (m - 1))]
      BY DEF InvFold
    <2> HIDE DEF new
    <2>10. \A m \in 0..n : new[m] = IF m = 0 THEN c ELSE InvNext(new[m - 1], p, s, e, top - (m - 1))
      BY <2>4, <2>6, <2>7
    <2>11. new = InvFold(new, c, p, s, e, top, n)
      BY <2>8, <2>9, <2>10
    <2> QED
      BY <1>2, <2>11
  <1> QED
    BY <1>3, <1>4

(* InvalidateRange is that search to its end. *)
LEMMA InvalidateIs ==
    ASSUME NEW c, NEW p, NEW s \in Addresses, NEW e \in Addresses
    PROVE  LET top == 1 + e \div HashSize
           IN  \E f : f = InvFold(f, c, p, s, e, top, top + 1) /\ InvalidateRange(c, p, s, e) = f[top + 1]
  <1> DEFINE top == 1 + e \div HashSize
             Body(f) == [n \in 0..(top + 1) |-> IF n = 0 THEN c
                 ELSE IF \A a \in s..e : f[n - 1].write_map[p][a] = 0 THEN f[n - 1]
                 ELSE ClearAll(f[n - 1], {b \in Blocks : /\ Covers(f[n - 1], b, p, s, e)
                                                         /\ HashIndex(f[n - 1], b) = top - (n - 1)})]
             f0 == CHOOSE f : f = Body(f)
  <1>1. InvalidateRange(c, p, s, e) = f0[top + 1]
    BY DEF InvalidateRange
  <1>2. \A f : InvFold(f, c, p, s, e, top, top + 1) = Body(f)
    BY DEF InvFold, InvNext, Hits
  <1>3. top \in Nat /\ top + 1 \in Nat
    BY CodeConstants
  <1>4. \E f : f = Body(f)
    <2> HIDE DEF top
    <2>1. PICK f : f = InvFold(f, c, p, s, e, top, top + 1)
      BY <1>3, InvFoldExists
    <2> HIDE DEF Body
    <2> QED
      BY <1>2, <2>1
  <1> HIDE DEF Body
  <1>5. f0 = Body(f0)
    BY <1>4
  <1> QED
    BY <1>1, <1>2, <1>5

(* What a quotient is. *)
LEMMA Quotient ==
    ASSUME NEW n \in Nat, NEW h \in Nat \ {0}
    PROVE  n \div h \in Nat /\ h * (n \div h) <= n /\ n < h * (n \div h) + h
  OBVIOUS

(* Quotients grow with the dividend. *)
LEMMA QuotientGrows ==
    ASSUME NEW h \in Nat \ {0}, NEW m \in Nat, NEW n \in Nat, m <= n
    PROVE  m \div h <= n \div h
  <1> DEFINE x == m \div h
             y == n \div h
  <1>1. x \in Nat /\ h * x <= m /\ y \in Nat /\ n < h * y + h
    BY Quotient
  <1> HIDE DEF x, y
  <1>2. h * x < h * (y + 1)
    BY <1>1
  <1>3. x < y + 1
    <2> SUFFICES ASSUME x >= y + 1 PROVE FALSE
      BY <1>1
    <2> DEFINE z == x - (y + 1)
    <2>1. z \in Nat /\ x = y + 1 + z
      BY <1>1
    <2> HIDE DEF z
    <2>2. h * x = h * (y + 1) + h * z /\ h * z >= 0
      BY <1>1, <2>1
    <2>3. h * x \in Nat /\ h * (y + 1) \in Nat /\ h * z \in Nat
      BY <1>1, <2>1
    <2> QED
      BY <1>2, <2>2, <2>3
  <1> QED
    BY <1>1, <1>3 DEF x, y

(* A list of the hash map has a number. *)
LEMMA HashIndexNat ==
    ASSUME NEW c \in Caches, NEW b \in Blocks
    PROVE  HashIndex(c, b) \in Nat
  <1>1. c.blocks[b].first \in Nat
    <2>1. c.blocks \in BlockMaps
      BY CodeFields
    <2>2. c.blocks[b].first \in Addresses
      BY <2>1, BlockFields
    <2> QED
      BY <2>2, CodeConstants
  <1>2. c.blocks[b].first \div HashSize \in Nat
    BY <1>1, CodeConstants, Quotient
  <1> QED
    BY <1>2 DEF HashIndex

(* Where the map counts nothing no block covers the range. *)
LEMMA NothingOver ==
    ASSUME NEW c, NEW A, Well(c, A, Pages), NEW p \in Pages, NEW s \in Addresses, NEW e \in Addresses,
           s <= e, \A a \in s..e : c.write_map[p][a] = 0, NEW b \in Blocks
    PROVE  ~Covers(c, b, p, s, e)
  <1> SUFFICES ASSUME Covers(c, b, p, s, e) PROVE FALSE
    OBVIOUS
  <1> DEFINE x == c.blocks[b].first
             y == c.blocks[b].last
             a == IF s <= x THEN x ELSE s
  <1>1. c.blocks[b].page = p /\ s <= y /\ e >= x
    BY DEF Covers
  <1>2. x \in Addresses /\ y \in Addresses /\ x <= y
    <2>1. c.blocks \in BlockMaps /\ Stretches(c.blocks)
      BY CodeFields DEF Well
    <2> QED
      BY <2>1, BlockFields DEF Stretches
  <1>3. PICK z \in Addresses : z \in s..e /\ x <= z /\ z <= y
    <2> HIDE DEF x, y
    <2>1. a \in Addresses
      BY <1>2
    <2>2. s \in Nat /\ e \in Nat /\ x \in Nat /\ y \in Nat
      BY <1>2, CodeConstants
    <2>3. a \in s..e /\ x <= a /\ a <= y
      <3>1. CASE s <= x
        BY <3>1, <1>1, <1>2, <2>2
      <3>2. CASE ~(s <= x)
        BY <3>2, <1>1, <1>2, <2>2
      <3> QED
        BY <3>1, <3>2
    <2> QED
      BY <2>1, <2>3
  <1>4. Cardinality(Over(c.blocks, p, z)) = 0
    BY <1>3 DEF Well, Counted
  <1>5. b \in Over(c.blocks, p, z)
    BY <1>1, <1>3 DEF Over
  <1>6. Over(c.blocks, p, z) = {}
    BY <1>4, OverFinite, FS_EmptySet
  <1> QED
    BY <1>5, <1>6

(* One list searched: the blocks in it that cover the range are gone. *)
LEMMA InvNextWell ==
    ASSUME NEW c, Well(c, LiveIn(c), Pages), NEW p \in Pages, NEW s \in Addresses, NEW e \in Addresses, s <= e,
           NEW h, NEW d, d = InvNext(c, p, s, e, h)
    PROVE  /\ Well(d, LiveIn(d), Pages) /\ Cleared(c, d, LiveIn(d)) /\ LiveIn(d) \subseteq LiveIn(c)
           /\ \A b \in LiveIn(d) : b \notin Hits(c, p, s, e, h)
  <1>1. CASE \A a \in s..e : c.write_map[p][a] = 0
    <2>1. d = c
      BY <1>1 DEF InvNext
    <2>2. \A b \in Blocks : ~Covers(c, b, p, s, e)
      BY <1>1, NothingOver
    <2>3. \A b \in LiveIn(d) : b \notin Hits(c, p, s, e, h)
      BY <2>2 DEF LiveIn, Hits
    <2> QED
      BY <2>1, <2>3, ClearedNothing
  <1>2. CASE ~ \A a \in s..e : c.write_map[p][a] = 0
    <2> DEFINE S == Hits(c, p, s, e, h)
    <2>1. d = ClearAll(c, S)
      BY <1>2 DEF InvNext
    <2>2. \A b \in S : b \in Blocks /\ c.blocks[b].page = p
      BY DEF Hits, Covers
    <2>3. S \in SUBSET Blocks /\ S \subseteq LiveIn(c)
      BY <2>2, CodeConstants DEF LiveIn
    <2>4. \A b \in S : c.blocks[b].other \notin S
      <3> SUFFICES ASSUME NEW b \in S, c.blocks[b].other \in S PROVE FALSE
        OBVIOUS
      <3>1. c.blocks[b].other # None
        BY <2>3, CodeConstants
      <3>2. c.blocks[c.blocks[b].other].page # c.blocks[b].page
        BY <2>3, <3>1 DEF Well, Paired
      <3> QED
        BY <2>2, <3>2
    <2>5. \A b \in LiveIn(c) \ S : c.blocks[b].page # None
      BY DEF LiveIn
    <2> HIDE DEF S
    <2>6. Well(d, LiveIn(d), Pages) /\ Cleared(c, d, LiveIn(d)) /\ LiveIn(d) \subseteq LiveIn(c) \ S
      BY <2>1, <2>3, <2>4, <2>5, ClearAllWell
    <2> QED
      BY <2>6 DEF S
  <1> QED
    BY <1>1, <1>2

(* A block that is left is about what it was about. *)
LEMMA ClearedAbout ==
    ASSUME NEW c, NEW d, Cleared(c, d, LiveIn(d)), NEW b \in LiveIn(d)
    PROVE  /\ d.blocks[b].page = c.blocks[b].page /\ d.blocks[b].first = c.blocks[b].first
           /\ d.blocks[b].last = c.blocks[b].last /\ d.blocks[b].hashed = c.blocks[b].hashed
           /\ HashIndex(d, b) = HashIndex(c, b)
           /\ \A p, s, e : Covers(d, b, p, s, e) => Covers(c, b, p, s, e)
  BY DEF Cleared, Same, HashIndex, Covers, LiveIn

(* What covers a range is alive. *)
LEMMA CoversLive ==
    ASSUME NEW c, NEW p \in Pages, NEW s, NEW e, NEW b \in Blocks, Covers(c, b, p, s, e)
    PROVE  b \in LiveIn(c)
  BY CodeConstants DEF Covers, LiveIn

(* All lists searched: nothing covers the range. *)
LEMMA InvalidateWell ==
    ASSUME NEW c, Well(c, LiveIn(c), Pages), NEW p \in Pages, NEW s \in Addresses, NEW e \in Addresses, s <= e,
           NEW d, d = InvalidateRange(c, p, s, e)
    PROVE  /\ Well(d, LiveIn(d), Pages) /\ Cleared(c, d, LiveIn(d)) /\ LiveIn(d) \subseteq LiveIn(c)
           /\ \A b \in Blocks : ~Covers(d, b, p, s, e)
  <1> DEFINE top == 1 + e \div HashSize
  <1>1. top \in Nat
    BY CodeConstants, Quotient
  <1>2. PICK f : f = InvFold(f, c, p, s, e, top, top + 1) /\ d = f[top + 1]
    BY InvalidateIs
  <1>3. \A b \in Blocks : Covers(c, b, p, s, e) => HashIndex(c, b) <= top
    <2> SUFFICES ASSUME NEW b \in Blocks, Covers(c, b, p, s, e) PROVE HashIndex(c, b) <= top
      OBVIOUS
    <2> DEFINE x == c.blocks[b].first
    <2>1. x \in Addresses /\ x <= e
      <3>1. c.blocks \in BlockMaps
        BY CodeFields DEF Well
      <3>2. x \in Addresses
        BY <3>1, BlockFields
      <3>3. x \in Nat /\ e \in Nat
        BY <3>2, CodeConstants
      <3> QED
        BY <3>2, <3>3 DEF Covers
    <2> HIDE DEF x
    <2>2. x \in Nat /\ e \in Nat
      BY <2>1, CodeConstants
    <2>3. x \div HashSize <= e \div HashSize
      BY <2>1, <2>2, CodeConstants, QuotientGrows
    <2>4. x \div HashSize \in Nat /\ e \div HashSize \in Nat
      BY <2>2, CodeConstants, Quotient
    <2> QED
      BY <2>3, <2>4 DEF HashIndex, x
  <1> HIDE DEF top
  <1>4. \A n \in 0..(top + 1) : f[n] = IF n = 0 THEN c ELSE InvNext(f[n - 1], p, s, e, top - (n - 1))
    BY <1>2 DEF InvFold
  <1> DEFINE Good(x, n) == /\ Well(x, LiveIn(x), Pages) /\ Cleared(c, x, LiveIn(x)) /\ LiveIn(x) \subseteq LiveIn(c)
                           /\ \A b \in Blocks : Covers(x, b, p, s, e) => HashIndex(x, b) <= top - n
             Bad == {n \in Nat : n <= top + 1 /\ ~Good(f[n], n)}
  <1>5. Bad = {}
    <2> SUFFICES ASSUME Bad # {} PROVE FALSE
      OBVIOUS
    <2>1. PICK n \in Bad : \A m \in Bad : n <= m
      <3>1. Bad \in SUBSET Nat
        OBVIOUS
      <3> HIDE DEF Bad
      <3> QED
        BY <3>1, LeastNatural
    <2>2. n \in Nat /\ n <= top + 1 /\ ~Good(f[n], n)
      BY <2>1
    <2>3. n # 0
      <3> SUFFICES ASSUME n = 0 PROVE FALSE
        OBVIOUS
      <3>1. f[n] = c
        BY <1>1, <1>4
      <3>2. Good(c, 0)
        BY <1>1, <1>3, ClearedNothing
      <3> HIDE DEF Good
      <3> QED
        BY <2>2, <3>1, <3>2
    <2> DEFINE x == f[n - 1]
               y == f[n]
    <2>4. Good(x, n - 1)
      <3>1. n - 1 \in Nat /\ n - 1 <= top + 1 /\ ~ (n <= n - 1)
        BY <1>1, <2>2, <2>3
      <3>2. n - 1 \notin Bad
        <4> HIDE DEF Bad
        <4> QED
          BY <2>1, <3>1
      <3> HIDE DEF Good
      <3> QED
        BY <3>1, <3>2
    <2>5. y = InvNext(x, p, s, e, top - (n - 1))
      BY <1>1, <1>4, <2>2, <2>3
    <2> HIDE DEF x, y
    <2>6. /\ Well(y, LiveIn(y), Pages) /\ Cleared(x, y, LiveIn(y)) /\ LiveIn(y) \subseteq LiveIn(x)
          /\ \A b \in LiveIn(y) : b \notin Hits(x, p, s, e, top - (n - 1))
      BY <2>4, <2>5, InvNextWell
    <2>7. Cleared(c, y, LiveIn(y)) /\ LiveIn(y) \subseteq LiveIn(c)
      BY <2>4, <2>6, ClearedTrans
    <2>8. ASSUME NEW b \in Blocks, Covers(y, b, p, s, e) PROVE HashIndex(y, b) <= top - n
      <3>1. b \in LiveIn(y)
        BY <2>8, CoversLive
      <3>2. HashIndex(y, b) = HashIndex(x, b) /\ Covers(x, b, p, s, e)
        BY <2>6, <2>8, <3>1, ClearedAbout
      <3>3. HashIndex(x, b) <= top - (n - 1) /\ HashIndex(x, b) # top - (n - 1)
        BY <2>4, <2>6, <3>1, <3>2 DEF Hits
      <3>4. HashIndex(x, b) \in Nat
        <4>1. x \in Caches
          BY <2>4 DEF Well
        <4> QED
          BY <4>1, HashIndexNat
      <3> QED
        BY <1>1, <2>2, <3>2, <3>3, <3>4
    <2>9. Good(y, n)
      BY <2>6, <2>7, <2>8
    <2> HIDE DEF Good
    <2> QED
      BY <2>2, <2>9 DEF y
  <1>6. Good(d, top + 1)
    <2>1. top + 1 \in Nat
      BY <1>1
    <2> HIDE DEF Good
    <2> QED
      BY <1>2, <1>5, <2>1
  <1>7. \A b \in Blocks : ~Covers(d, b, p, s, e)
    <2> SUFFICES ASSUME NEW b \in Blocks, Covers(d, b, p, s, e) PROVE FALSE
      OBVIOUS
    <2>1. HashIndex(d, b) <= top - (top + 1)
      BY <1>6
    <2>2. HashIndex(d, b) \in Nat
      BY <1>6, HashIndexNat DEF Well
    <2> QED
      BY <1>1, <2>1, <2>2
  <1> QED
    BY <1>6, <1>7
-----------------------------------------------------------------------------
(* Sequences: one element taken out, and several replaced.                 *)
Without(s, k) == SubSeq(s, 1, k - 1) \o SubSeq(s, k + 1, Len(s))
Instead(s, k, n, mid) == SubSeq(s, 1, k - 1) \o mid \o SubSeq(s, n + 1, Len(s))

(* What \o is, said of a name. *)
Joined(u, v, new) ==
    /\ Len(new) = Len(u) + Len(v)
    /\ \A i \in 1..(Len(u) + Len(v)) : new[i] = IF i <= Len(u) THEN u[i] ELSE v[i - Len(u)]

(* Two sequences, one behind the other. *)
LEMMA JoinedIs ==
    ASSUME NEW S, NEW u \in Seq(S), NEW v \in Seq(S)
    PROVE  u \o v \in Seq(S) /\ Joined(u, v, u \o v)
  BY ConcatProperties DEF Joined

(* A sequence without its element k. *)
LEMMA Removed ==
    ASSUME NEW S, NEW s \in Seq(S), NEW k \in 1..Len(s)
    PROVE  LET new == Without(s, k)
           IN  /\ new \in Seq(S) /\ Len(new) = Len(s) - 1
               /\ \A j \in 1..Len(new) : new[j] = IF j < k THEN s[j] ELSE s[j + 1]
  <1> DEFINE new == Without(s, k)
             u == SubSeq(s, 1, k - 1)
             v == SubSeq(s, k + 1, Len(s))
  <1>0. Len(s) \in Nat
    BY LenProperties
  <1>1. u \in Seq(S) /\ Len(u) = k - 1 /\ \A i \in 1..(k - 1) : u[i] = s[i]
    BY <1>0, SubSeqProperties
  <1>2. v \in Seq(S) /\ Len(v) = Len(s) - k /\ \A i \in 1..(Len(s) - k) : v[i] = s[k + i]
    BY <1>0, SubSeqProperties
  <1>3. new = u \o v
    BY DEF Without
  <1> HIDE DEF u, v, new
  <1>4. new \in Seq(S) /\ Joined(u, v, new)
    BY <1>1, <1>2, <1>3, JoinedIs
  <1>5. Len(new) = Len(s) - 1
    BY <1>0, <1>1, <1>2, <1>4 DEF Joined
  <1>6. ASSUME NEW j \in 1..Len(new) PROVE new[j] = IF j < k THEN s[j] ELSE s[j + 1]
    <2>1. new[j] = IF j <= Len(u) THEN u[j] ELSE v[j - Len(u)]
      BY <1>0, <1>1, <1>2, <1>4, <1>5 DEF Joined
    <2>2. CASE j < k
      BY <1>0, <1>1, <2>1, <2>2
    <2>3. CASE j >= k
      <3>1. ~(j <= Len(u)) /\ j - Len(u) \in 1..(Len(s) - k) /\ k + (j - Len(u)) = j + 1
        BY <1>0, <1>1, <1>5, <2>3
      <3>2. new[j] = s[k + (j - Len(u))]
        BY <1>2, <2>1, <3>1
      <3>3. new[j] = s[j + 1]
        BY <3>1, <3>2, Zenon
      <3>4. ~(j < k)
        BY <1>5, <1>0, <2>3
      <3> QED
        BY <3>3, <3>4
    <2> QED
      BY <1>0, <1>5, <2>2, <2>3
  <1> QED
    BY <1>4, <1>5, <1>6 DEF new

(* What Instead is, said of a name. *)
Placed(new, s, k, n, mid) ==
    /\ Len(new) = (k - 1) + Len(mid) + (Len(s) - n)
    /\ \A j \in 1..Len(new) : new[j] = IF j < k THEN s[j]
                                        ELSE IF j < k + Len(mid) THEN mid[j - (k - 1)]
                                        ELSE s[(j - ((k - 1) + Len(mid))) + n]

(* A sequence with others in the place of its elements k to n. *)
LEMMA Replaced ==
    ASSUME NEW S, NEW s \in Seq(S), NEW k \in 1..Len(s), NEW n \in k..Len(s), NEW mid \in Seq(S)
    PROVE  Instead(s, k, n, mid) \in Seq(S) /\ Placed(Instead(s, k, n, mid), s, k, n, mid)
  <1> DEFINE new == Instead(s, k, n, mid)
             u == SubSeq(s, 1, k - 1)
             v == SubSeq(s, n + 1, Len(s))
             w == u \o mid
  <1>0. Len(s) \in Nat /\ Len(mid) \in Nat
    BY LenProperties
  <1>1. u \in Seq(S) /\ Len(u) = k - 1 /\ \A i \in 1..(k - 1) : u[i] = s[i]
    BY <1>0, SubSeqProperties
  <1>2. v \in Seq(S) /\ Len(v) = Len(s) - n /\ \A i \in 1..(Len(s) - n) : v[i] = s[n + i]
    BY <1>0, SubSeqProperties
  <1>3. new = w \o v
    BY DEF Instead
  <1> HIDE DEF u, v, new
  <1>4. w \in Seq(S) /\ Len(w) = Len(u) + Len(mid)
        /\ \A i \in 1..(Len(u) + Len(mid)) : w[i] = IF i <= Len(u) THEN u[i] ELSE mid[i - Len(u)]
    BY <1>1, ConcatProperties
  <1> HIDE DEF w
  <1>5. new \in Seq(S) /\ Joined(w, v, new)
    BY <1>2, <1>3, <1>4, JoinedIs
  <1>10. Len(w) = (k - 1) + Len(mid) /\ Len(new) = (k - 1) + Len(mid) + (Len(s) - n)
    BY <1>0, <1>1, <1>2, <1>4, <1>5 DEF Joined
  <1> SUFFICES ASSUME NEW j \in 1..Len(new)
               PROVE  new[j] = IF j < k THEN s[j]
                                              ELSE IF j < k + Len(mid) THEN mid[j - (k - 1)]
                                              ELSE s[(j - ((k - 1) + Len(mid))) + n]
    BY <1>5, <1>10 DEF new, Placed
  <1>6. new[j] = IF j <= Len(w) THEN w[j] ELSE v[j - Len(w)]
    BY <1>2, <1>5, <1>10 DEF Joined
  <1>7. CASE j < k
    BY <1>0, <1>1, <1>4, <1>6, <1>7
  <1>8. CASE j >= k /\ j < k + Len(mid)
    <2>1. j <= Len(w) /\ ~ (j <= Len(u)) /\ j \in 1..(Len(u) + Len(mid))
      BY <1>0, <1>1, <1>4, <1>8, <1>10
    <2>2. w[j] = mid[j - Len(u)]
      BY <1>4, <2>1
    <2> QED
      BY <1>0, <1>1, <1>6, <1>8, <2>1, <2>2
  <1>9. CASE j >= k + Len(mid)
    <2>0. Len(w) \in Nat /\ Len(new) \in Nat
      BY <1>0, <1>10
    <2> DEFINE x == Len(w)
               y == Len(new)
               z == Len(s)
    <2>1. ~(j <= Len(w)) /\ j - Len(w) \in 1..(Len(s) - n)
      <3>1. x \in Nat /\ y \in Nat /\ z \in Nat /\ j \in 1..y /\ n \in Nat /\ j >= x + 1 /\ y = x + (z - n)
        BY <1>0, <1>9, <1>10, <2>0
      <3> HIDE DEF x, y, z
      <3>2. ~(j <= x) /\ j - x \in 1..(z - n)
        BY <3>1
      <3> QED
        BY <3>2 DEF x, z
    <2>2. new[j] = s[n + (j - Len(w))]
      BY <1>2, <1>6, <2>1
    <2> QED
      BY <1>0, <1>1, <1>4, <1>9, <1>10, <2>2
  <1> QED
    BY <1>0, <1>7, <1>8, <1>9
-----------------------------------------------------------------------------
(* Handlers that are given back and taken.                                 *)
Zeroed == [a \in Addresses |-> 0]

(* Release takes one handler, that of the page, and clears its map. *)
LEMMA ReleaseIs ==
    ASSUME NEW c \in Caches, NEW p \in Pages, HasHandler(c, p), Once(c.used), NEW d, d = Release(c, p)
    PROVE  /\ d \in Caches /\ d.blocks = c.blocks /\ d.code = c.code /\ d.active = c.active /\ d.free = c.free
           /\ d.write_map = [c.write_map EXCEPT ![p] = Zeroed]
           /\ Once(d.used) /\ Len(d.used) = Len(c.used) - 1
           /\ \A q : HasHandler(d, q) <=> q # p /\ HasHandler(c, q)
  <1> DEFINE s == c.used
             k == CHOOSE k \in 1..Len(s) : s[k] = p
             new == Without(s, k)
             map == [c.write_map EXCEPT ![p] = Zeroed]
             count == [c.active_count EXCEPT ![p] = ReleaseDelay]
  <1>1. k \in 1..Len(s) /\ s[k] = p
    BY DEF HasHandler
  <1>2. d = [c EXCEPT !.used = new, !.write_map = map, !.active_count = count]
    BY DEF Release, Without, Zeroed
  <1>3. s \in Seq(Pages) /\ c.write_map \in [Pages -> [Addresses -> Nat]] /\ c.active_count \in [Pages -> 1..ReleaseDelay]
    BY CodeFields
  <1> HIDE DEF k, new
  <1>4. new \in Seq(Pages) /\ Len(new) = Len(s) - 1 /\ Len(s) \in Nat
        /\ \A j \in 1..Len(new) : new[j] = IF j < k THEN s[j] ELSE s[j + 1]
    <2> HIDE DEF s
    <2> QED
      BY <1>1, <1>3, Removed, LenProperties DEF new
  <1>5. map \in [Pages -> [Addresses -> Nat]] /\ count \in [Pages -> 1..ReleaseDelay]
    <2>1. Zeroed \in [Addresses -> Nat] /\ ReleaseDelay \in 1..ReleaseDelay
      BY CodeConstants DEF Zeroed
    <2> QED
      BY <1>3, <2>1
  <1> HIDE DEF map, count
  <1>6. /\ d \in Caches /\ d.blocks = c.blocks /\ d.code = c.code /\ d.active = c.active /\ d.free = c.free
        /\ d.write_map = map /\ d.used = new
    BY <1>2, <1>4, <1>5 DEF Caches
  <1> HIDE DEF s
  <1>7. \A j, l \in 1..Len(s) : s[j] = s[l] => j = l
    BY DEF Once, s
  <1>8. Once(new)
    <2> SUFFICES ASSUME NEW j \in 1..Len(new), NEW l \in 1..Len(new), new[j] = new[l] PROVE j = l
      BY DEF Once
    <2> DEFINE at(x) == IF x < k THEN x ELSE x + 1
    <2>1. at(j) \in 1..Len(s) /\ at(l) \in 1..Len(s)
      BY <1>1, <1>4
    <2>2. new[j] = s[at(j)] /\ new[l] = s[at(l)]
      BY <1>4
    <2>3. at(j) = at(l)
      <3> HIDE DEF at
      <3> QED
        BY <1>7, <2>1, <2>2
    <2> QED
      BY <1>1, <1>4, <2>3
  <1>9. ASSUME NEW q PROVE (\E j \in 1..Len(new) : new[j] = q) <=> q # p /\ \E l \in 1..Len(s) : s[l] = q
    <2>1. ASSUME NEW j \in 1..Len(new), new[j] = q PROVE q # p /\ \E l \in 1..Len(s) : s[l] = q
      <3> DEFINE l == IF j < k THEN j ELSE j + 1
      <3>1. l \in 1..Len(s) /\ l # k
        BY <1>1, <1>4
      <3>2. s[l] = q
        BY <1>4, <2>1
      <3> HIDE DEF l
      <3> QED
        BY <1>1, <1>7, <3>1, <3>2
    <2>2. ASSUME NEW l \in 1..Len(s), s[l] = q, q # p PROVE \E j \in 1..Len(new) : new[j] = q
      <3> DEFINE j == IF l < k THEN l ELSE l - 1
      <3>0. l # k
        BY <1>1, <2>2
      <3>1. j \in 1..Len(new) /\ l = IF j < k THEN j ELSE j + 1
        BY <1>1, <1>4, <3>0
      <3> HIDE DEF j
      <3>2. new[j] = s[l]
        BY <1>4, <3>1
      <3> QED
        BY <2>2, <3>1, <3>2
    <2> QED
      BY <2>1, <2>2
  <1> QED
    BY <1>4, <1>6, <1>8, <1>9 DEF map, s, HasHandler

(* A page without blocks gives its handler back. *)
LEMMA ReleaseWell ==
    ASSUME NEW c, NEW p \in Pages, Well(c, LiveIn(c), Pages \ {p}), InPage(c, p) = {},
           HasHandler(c, p), Once(c.used), NEW d, d = Release(c, p)
    PROVE  Well(d, LiveIn(d), Pages) /\ LiveIn(d) = LiveIn(c)
  <1>0. c \in Caches
    BY DEF Well
  <1>1. /\ d \in Caches /\ d.blocks = c.blocks /\ d.code = c.code /\ d.active = c.active /\ d.free = c.free
        /\ d.write_map = [c.write_map EXCEPT ![p] = Zeroed]
        /\ \A q : HasHandler(d, q) <=> q # p /\ HasHandler(c, q)
    BY <1>0, ReleaseIs
  <1>2. LiveIn(d) = LiveIn(c)
    BY <1>1 DEF LiveIn
  <1>3. c.write_map \in [Pages -> [Addresses -> Nat]]
    BY <1>0, CodeFields
  <1>4. Counted(d, Pages)
    <2> SUFFICES ASSUME NEW q \in Pages, NEW a \in Addresses
                 PROVE  d.write_map[q][a] = Cardinality(Over(d.blocks, q, a))
      BY DEF Counted
    <2>1. CASE q = p
      <3>1. Over(d.blocks, p, a) = {}
        BY <1>1 DEF Over, InPage
      <3>2. d.write_map[p][a] = 0
        BY <1>1, <1>3 DEF Zeroed
      <3> QED
        BY <2>1, <3>1, <3>2, FS_EmptySet
    <2>2. CASE q # p
      <3>1. d.write_map[q] = c.write_map[q]
        BY <1>1, <1>3, <2>2
      <3>2. c.write_map[q][a] = Cardinality(Over(c.blocks, q, a))
        BY <2>2 DEF Well, Counted
      <3> QED
        BY <1>1, <3>1, <3>2
    <2> QED
      BY <2>1, <2>2
  <1>5. Handled(d)
    <2> SUFFICES ASSUME NEW b \in Blocks, d.blocks[b].page # None PROVE HasHandler(d, d.blocks[b].page)
      BY DEF Handled
    <2>1. c.blocks[b].page # None /\ c.blocks[b].page # p
      BY <1>1 DEF InPage
    <2>2. HasHandler(c, c.blocks[b].page)
      BY <2>1 DEF Well, Handled
    <2> QED
      BY <1>1, <2>1, <2>2
  <1>6. Conserved(d, LiveIn(d))
    BY <1>1, <1>2 DEF Well, Conserved
  <1>7. Linked(d.blocks, LiveIn(d)) /\ Paired(d.blocks, LiveIn(d)) /\ Stretches(d.blocks) /\ LiveIn(d) \in SUBSET Blocks
    BY <1>1, <1>2 DEF Well
  <1> QED
    BY <1>1, <1>2, <1>4, <1>5, <1>6, <1>7 DEF Well
-----------------------------------------------------------------------------
(* Between two calls: no page has two handlers, there are not too many of  *)
(* them, and the pieces make up the memory; S[k] is where piece k ends.    *)
Sums(mem, S) ==
    /\ S \in [0..Len(mem) -> Nat] /\ S[0] = 0 /\ S[Len(mem)] = CacheTotal
    /\ \A k \in 1..Len(mem) : S[k] = S[k - 1] + mem[k].size
Measured(mem) == \E S : Sums(mem, S)

(* What can be found by its address is a piece. *)
Rooted(c) == \A b \in LiveIn(c) : c.blocks[b].hashed => b \in PieceBlocks(c.code)

Full(c) ==
    /\ Well(c, LiveIn(c), Pages) /\ Once(c.used) /\ Len(c.used) <= CachePages /\ Measured(c.code) /\ Rooted(c)

(* At most that blocks were cleared and handlers taken and given.          *)
Kept(c, d) ==
    /\ d.code = c.code /\ d.active = c.active /\ c.free \subseteq d.free /\ LiveIn(d) \subseteq LiveIn(c)
    /\ \A b \in LiveIn(d) : /\ d.blocks[b].page = c.blocks[b].page /\ d.blocks[b].other = c.blocks[b].other
                            /\ d.blocks[b].first = c.blocks[b].first /\ d.blocks[b].last = c.blocks[b].last
                            /\ d.blocks[b].hashed = c.blocks[b].hashed

(* Kept from step to step. *)
LEMMA KeptTrans == ASSUME NEW c, NEW d, NEW e, Kept(c, d), Kept(d, e) PROVE Kept(c, e)
  BY DEF Kept

(* A cache keeps what it has. *)
LEMMA KeptSame == ASSUME NEW c PROVE Kept(c, c)
  BY DEF Kept

(* What the memory needs is kept where only blocks were cleared. *)
LEMMA FullKept ==
    ASSUME NEW c, Full(c), NEW d, Kept(c, d), Well(d, LiveIn(d), Pages), Once(d.used), Len(d.used) <= CachePages
    PROVE  Full(d)
  <1>1. Rooted(d)
    BY DEF Full, Rooted, Kept
  <1>2. Measured(d.code)
    BY DEF Full, Kept
  <1> QED
    BY <1>1, <1>2 DEF Full

(* Clearing keeps the rest. *)
LEMMA ClearedKept ==
    ASSUME NEW c, NEW d, Cleared(c, d, LiveIn(d)), LiveIn(d) \subseteq LiveIn(c)
    PROVE  Kept(c, d)
  <1>1. LiveIn(d) \in SUBSET Blocks
    BY DEF LiveIn
  <1> QED
    BY <1>1 DEF Kept, Cleared, Same

(* The blocks of a page are let go of, and are still to be cleared. *)
Orphaned(c, p) ==
    [c EXCEPT !.blocks = [b \in Blocks |-> IF @[b].page = p THEN [@[b] EXCEPT !.page = None] ELSE @[b]]]

(* Letting go of the blocks of a page changes their page only. *)
LEMMA OrphanedIs ==
    ASSUME NEW c \in Caches, NEW p \in Pages
    PROVE  LET d == Orphaned(c, p)
           IN  /\ d \in Caches /\ Same(c, d) /\ SameMaps(c, d) /\ d.free = c.free
               /\ \A b \in Blocks : /\ d.blocks[b].page = IF c.blocks[b].page = p THEN None ELSE c.blocks[b].page
                                    /\ d.blocks[b].other = c.blocks[b].other
                                    /\ d.blocks[b].to = c.blocks[b].to /\ d.blocks[b].from = c.blocks[b].from
  <1> DEFINE d == Orphaned(c, p)
             new == [b \in Blocks |-> IF c.blocks[b].page = p THEN [c.blocks[b] EXCEPT !.page = None] ELSE c.blocks[b]]
  <1>1. d = [c EXCEPT !.blocks = new]
    BY DEF Orphaned
  <1>2. ASSUME NEW b \in Blocks
        PROVE  /\ new[b] \in BlockRecs
               /\ new[b].page = IF c.blocks[b].page = p THEN None ELSE c.blocks[b].page
               /\ new[b].other = c.blocks[b].other /\ new[b].to = c.blocks[b].to /\ new[b].from = c.blocks[b].from
               /\ new[b].first = c.blocks[b].first /\ new[b].last = c.blocks[b].last
               /\ new[b].hashed = c.blocks[b].hashed
    <2>1. c.blocks[b] \in BlockRecs
      BY CodeFields, BlockFields
    <2> QED
      BY <2>1 DEF BlockRecs
  <1>3. new = [b \in Blocks |-> new[b]]
    BY Zenon
  <1> HIDE DEF new
  <1>4. new \in BlockMaps
    BY <1>2, <1>3 DEF BlockMaps
  <1>5. /\ d \in Caches /\ d.blocks = new /\ d.code = c.code /\ d.active = c.active /\ d.free = c.free
        /\ d.write_map = c.write_map /\ d.used = c.used /\ d.active_count = c.active_count
    BY <1>1, <1>4, WithBlocks
  <1> HIDE DEF d
  <1>6. Same(c, d) /\ SameMaps(c, d)
    BY <1>2, <1>5 DEF Same, SameMaps
  <1> QED
    BY <1>2, <1>5, <1>6 DEF d

(* The cache is sound for the other pages, with those blocks still to be cleared. *)
LEMMA OrphanedWell ==
    ASSUME NEW c, Well(c, LiveIn(c), Pages), NEW p \in Pages, NEW d, d = Orphaned(c, p)
    PROVE  Well(d, LiveIn(c), Pages \ {p})
  <1> DEFINE A == LiveIn(c)
  <1>1. /\ c \in Caches /\ A \in SUBSET Blocks /\ Linked(c.blocks, A) /\ Paired(c.blocks, A)
        /\ Stretches(c.blocks) /\ Conserved(c, A) /\ Counted(c, Pages) /\ Handled(c)
    BY DEF Well
  <1>2. /\ d \in Caches /\ Same(c, d) /\ SameMaps(c, d) /\ d.free = c.free
        /\ \A b \in Blocks : /\ d.blocks[b].page = IF c.blocks[b].page = p THEN None ELSE c.blocks[b].page
                             /\ d.blocks[b].other = c.blocks[b].other
                             /\ d.blocks[b].to = c.blocks[b].to /\ d.blocks[b].from = c.blocks[b].from
    BY <1>1, OrphanedIs
  <1>3. \A b \in A : c.blocks[b].page # None
    BY DEF LiveIn
  <1> HIDE DEF A
  <1>4. Linked(d.blocks, A)
    <2>1. c.blocks \in BlockMaps
      BY <1>1, CodeFields
    <2>2. \A b \in Blocks : d.blocks[b].hashed = c.blocks[b].hashed
      BY <1>2 DEF Same
    <2> QED
      BY <1>1, <1>2, <2>1, <2>2, LinkedSame
  <1>5. Paired(d.blocks, A)
    <2>1. ASSUME NEW b \in A, d.blocks[b].other # None
          PROVE  /\ d.blocks[b].other \in A /\ d.blocks[d.blocks[b].other].other = b
                 /\ d.blocks[d.blocks[b].other].hashed # d.blocks[b].hashed
                 /\ d.blocks[d.blocks[b].other].page # d.blocks[b].page
      <3> DEFINE o == c.blocks[b].other
      <3>1. d.blocks[b].other = o /\ b \in Blocks
        BY <1>1, <1>2
      <3>2. o \in A /\ c.blocks[o].other = b /\ c.blocks[o].hashed # c.blocks[b].hashed
            /\ c.blocks[o].page # c.blocks[b].page
        BY <1>1, <2>1, <3>1 DEF Paired
      <3> HIDE DEF o
      <3>3. o \in Blocks /\ c.blocks[o].page # None /\ c.blocks[b].page # None
        BY <1>1, <1>3, <3>2
      <3>4. d.blocks[o].other = b /\ d.blocks[o].hashed # d.blocks[b].hashed
        BY <1>2, <3>1, <3>2, <3>3 DEF Same
      <3>5. d.blocks[o].page # d.blocks[b].page
        BY <1>2, <3>1, <3>2, <3>3
      <3> QED
        BY <3>1, <3>2, <3>4, <3>5
    <2>2. ASSUME NEW b \in Blocks \ A PROVE d.blocks[b].other = None /\ d.blocks[b].page = None
      BY <1>1, <1>2 DEF Paired
    <2> QED
      BY <2>1, <2>2 DEF Paired
  <1>6. Conserved(d, A)
    <2>1. CrossOf(d.blocks, A) = CrossOf(c.blocks, A)
      BY <1>1, <1>2 DEF CrossOf, Same
    <2> QED
      BY <1>1, <1>2, <2>1 DEF Conserved, Same
  <1>7. Counted(d, Pages \ {p})
    <2> SUFFICES ASSUME NEW q \in Pages \ {p}, NEW a \in Addresses
                 PROVE  d.write_map[q][a] = Cardinality(Over(d.blocks, q, a))
      BY DEF Counted
    <2>1. Over(d.blocks, q, a) = Over(c.blocks, q, a)
      <3>1. \A b \in Blocks : d.blocks[b].page = q <=> c.blocks[b].page = q
        BY <1>2, CodeConstants
      <3> QED
        BY <1>2, <3>1 DEF Over, Same
    <2> QED
      BY <1>1, <1>2, <2>1 DEF Counted, SameMaps
  <1>8. Handled(d)
    BY <1>1, <1>2, SameHandled
  <1>9. Stretches(d.blocks)
    BY <1>1, <1>2, SameStretches
  <1> QED
    BY <1>1, <1>2, <1>4, <1>5, <1>6, <1>7, <1>8, <1>9 DEF Well, A

(* A page loses its handler and all its blocks (ClearRelease). *)
LEMMA ClearReleaseFull ==
    ASSUME NEW c, Full(c), NEW p \in Pages, HasHandler(c, p), NEW d, d = ClearRelease(c, p)
    PROVE  /\ Full(d) /\ Kept(c, d) /\ Len(d.used) = Len(c.used) - 1
           /\ \A q : HasHandler(d, q) <=> q # p /\ HasHandler(c, q)
  <1> DEFINE o == Orphaned(c, p)
             S == InPage(c, p)
             A == LiveIn(c)
             x == ClearAll(o, S)
  <1>1. d = Release(x, p)
    BY DEF ClearRelease, Orphaned
  <1>2. Well(o, A, Pages \ {p})
    BY OrphanedWell DEF Full
  <1>3. c \in Caches /\ Paired(c.blocks, A) /\ None \notin Blocks /\ p # None
    BY CodeConstants DEF Full, Well
  <1>4. /\ Same(c, o) /\ SameMaps(c, o) /\ o.free = c.free
        /\ \A b \in Blocks : /\ o.blocks[b].page = IF c.blocks[b].page = p THEN None ELSE c.blocks[b].page
                             /\ o.blocks[b].other = c.blocks[b].other
    BY <1>3, OrphanedIs
  <1>5. S \in SUBSET Blocks /\ S \subseteq A /\ A \in SUBSET Blocks
    BY <1>3 DEF InPage, LiveIn
  <1>6. \A b \in S : o.blocks[b].other \notin S
    <2> SUFFICES ASSUME NEW b \in S, o.blocks[b].other \in S PROVE FALSE
      OBVIOUS
    <2>1. b \in A /\ c.blocks[b].page = p /\ o.blocks[b].other = c.blocks[b].other
      BY <1>4, <1>5 DEF InPage
    <2>2. c.blocks[b].other # None /\ c.blocks[c.blocks[b].other].page = p
      BY <1>3, <1>5, <2>1 DEF InPage
    <2> QED
      BY <1>3, <2>1, <2>2 DEF Paired
  <1>7. \A b \in A \ S : o.blocks[b].page # None
    BY <1>4 DEF InPage, LiveIn
  <1> HIDE DEF o, S, A
  <1>8. Well(x, LiveIn(x), Pages \ {p}) /\ Cleared(o, x, LiveIn(x)) /\ LiveIn(x) \subseteq A \ S
    BY <1>2, <1>5, <1>6, <1>7, ClearAllWell
  <1> HIDE DEF x
  <1>9. x.code = c.code /\ x.active = c.active /\ x.used = c.used /\ c.free \subseteq x.free /\ x \in Caches
    BY <1>4, <1>8 DEF Cleared, Same, Well
  <1>10. \A b \in LiveIn(x) : b \in Blocks /\ x.blocks[b].page = c.blocks[b].page /\ c.blocks[b].page # p
                              /\ x.blocks[b].other = c.blocks[b].other
    <2> SUFFICES ASSUME NEW b \in LiveIn(x)
                 PROVE  b \in Blocks /\ x.blocks[b].page = c.blocks[b].page /\ c.blocks[b].page # p
                        /\ x.blocks[b].other = c.blocks[b].other
      OBVIOUS
    <2>1. b \in Blocks /\ c.blocks[b].page # p
      BY <1>5, <1>8 DEF S, InPage
    <2>2. x.blocks[b].page = o.blocks[b].page /\ x.blocks[b].other = o.blocks[b].other
      BY <1>8 DEF Cleared
    <2> QED
      BY <1>4, <2>1, <2>2
  <1>11. InPage(x, p) = {}
    BY <1>3, <1>10 DEF InPage, LiveIn
  <1>12. HasHandler(x, p) /\ Once(x.used) /\ \A q : HasHandler(x, q) <=> HasHandler(c, q)
    BY <1>9 DEF HasHandler, Full
  <1>13. Well(d, LiveIn(d), Pages) /\ LiveIn(d) = LiveIn(x)
    BY <1>1, <1>8, <1>11, <1>12, ReleaseWell
  <1>14. /\ d.blocks = x.blocks /\ d.code = x.code /\ d.active = x.active /\ d.free = x.free
         /\ Once(d.used) /\ Len(d.used) = Len(x.used) - 1
         /\ \A q : HasHandler(d, q) <=> q # p /\ HasHandler(x, q)
    BY <1>1, <1>9, <1>12, ReleaseIs
  <1>15. Len(c.used) \in Nat /\ Len(c.used) <= CachePages /\ Measured(c.code) /\ CachePages \in Nat
    <2>1. c.used \in Seq(Pages)
      BY <1>3, CodeFields
    <2> QED
      BY <2>1, LenProperties, CacheAssumption DEF Full
  <1>16. Kept(c, d)
    <2>1. LiveIn(d) \subseteq LiveIn(c)
      BY <1>8, <1>13 DEF A
    <2>2. \A b \in Blocks : /\ d.blocks[b].first = c.blocks[b].first /\ d.blocks[b].last = c.blocks[b].last
                            /\ d.blocks[b].hashed = c.blocks[b].hashed
      BY <1>4, <1>8, <1>14 DEF Cleared, Same
    <2> QED
      BY <1>9, <1>10, <1>13, <1>14, <2>1, <2>2 DEF Kept
  <1>17. Full(d)
    <2>1. Len(d.used) <= CachePages
      BY <1>9, <1>14, <1>15
    <2> QED
      BY <1>13, <1>14, <1>16, <2>1, FullKept
  <1> QED
    BY <1>9, <1>12, <1>14, <1>16, <1>17

(* InvalidateRange leaves a whole cache in which nothing covers the range. *)
LEMMA InvalidateFull ==
    ASSUME NEW c, Full(c), NEW p \in Pages, NEW s \in Addresses, NEW e \in Addresses, s <= e,
           NEW d, d = InvalidateRange(c, p, s, e)
    PROVE  Full(d) /\ Kept(c, d) /\ \A b \in Blocks : ~Covers(d, b, p, s, e)
  <1>1. /\ Well(d, LiveIn(d), Pages) /\ Cleared(c, d, LiveIn(d)) /\ LiveIn(d) \subseteq LiveIn(c)
        /\ \A b \in Blocks : ~Covers(d, b, p, s, e)
    BY InvalidateWell DEF Full
  <1>2. d.used = c.used /\ Kept(c, d)
    BY <1>1, ClearedKept DEF Cleared, Same
  <1>3. Once(d.used) /\ Len(d.used) <= CachePages
    BY <1>2 DEF Full
  <1> QED
    BY <1>1, <1>2, <1>3, FullKept

(* A write that hits no code. *)
LEMMA UntouchedFull ==
    ASSUME NEW c, Full(c), NEW p \in Pages, HasHandler(c, p), NEW d, d = Untouched(c, p)
    PROVE  Full(d) /\ Kept(c, d) /\ d.blocks = c.blocks
  <1>0. c \in Caches /\ c.active_count \in [Pages -> 1..ReleaseDelay]
    BY CodeFields DEF Full, Well
  <1>1. CASE InPage(c, p) # {}
    BY <1>1, KeptSame DEF Untouched
  <1>2. CASE InPage(c, p) = {} /\ c.active_count[p] > 1
    <2> DEFINE count == [c.active_count EXCEPT ![p] = @ - 1]
    <2>1. d = [c EXCEPT !.active_count = count]
      BY <1>2 DEF Untouched
    <2>2. count \in [Pages -> 1..ReleaseDelay]
      <3>1. c.active_count[p] \in 1..ReleaseDelay
        BY <1>0
      <3>2. c.active_count[p] - 1 \in 1..ReleaseDelay
        BY <1>2, <3>1, CodeConstants
      <3> QED
        BY <1>0, <3>2
    <2> HIDE DEF count
    <2>3. /\ d \in Caches /\ d.blocks = c.blocks /\ d.code = c.code /\ d.active = c.active /\ d.free = c.free
          /\ d.write_map = c.write_map /\ d.used = c.used
      BY <1>0, <2>1, <2>2 DEF Caches
    <2> HIDE <2>1
    <2>4. LiveIn(d) = LiveIn(c)
      BY <2>3 DEF LiveIn
    <2>5. Conserved(d, LiveIn(d)) /\ Counted(d, Pages) /\ Handled(d)
      BY <2>3, <2>4 DEF Full, Well, Conserved, Counted, Handled, HasHandler
    <2>6. Kept(c, d)
      BY <2>3, <2>4 DEF Kept
    <2>8. Well(d, LiveIn(d), Pages) /\ Once(d.used) /\ Len(d.used) <= CachePages
      BY <2>3, <2>4, <2>5 DEF Full, Well
    <2>7. Full(d)
      BY <2>6, <2>8, FullKept
    <2> QED
      BY <2>3, <2>6, <2>7
  <1>3. CASE InPage(c, p) = {} /\ ~(c.active_count[p] > 1)
    <2>1. d = Release(c, p)
      BY <1>3 DEF Untouched
    <2>2. Well(c, LiveIn(c), Pages \ {p})
      BY DEF Full, Well, Counted
    <2>3. Once(c.used) /\ Len(c.used) <= CachePages /\ Measured(c.code)
      BY DEF Full
    <2>4. Well(d, LiveIn(d), Pages) /\ LiveIn(d) = LiveIn(c)
      BY <1>3, <2>1, <2>2, <2>3, ReleaseWell
    <2>5. /\ d.blocks = c.blocks /\ d.code = c.code /\ d.active = c.active /\ d.free = c.free
          /\ Once(d.used) /\ Len(d.used) = Len(c.used) - 1
      BY <1>0, <2>1, <2>3, ReleaseIs
    <2>6. Len(c.used) \in Nat /\ CachePages \in Nat
      <3>1. c.used \in Seq(Pages)
        BY <1>0, CodeFields
      <3> QED
        BY <3>1, LenProperties, CacheAssumption
    <2>7. Len(d.used) <= CachePages
      BY <2>3, <2>5, <2>6
    <2>8. Kept(c, d)
      BY <2>4, <2>5 DEF Kept
    <2>9. Full(d)
      BY <2>4, <2>5, <2>7, <2>8, FullKept
    <2> QED
      BY <2>5, <2>8, <2>9
  <1> QED
    BY <1>1, <1>2, <1>3

(* So does any write to a page with a handler. *)
LEMMA WrittenFull ==
    ASSUME NEW c, Full(c), NEW p \in Pages, HasHandler(c, p), NEW s \in Addresses, NEW e \in Addresses, s <= e,
           NEW d, d = Written(c, p, s, e)
    PROVE  Full(d) /\ Kept(c, d) /\ \A b \in Blocks : ~Covers(d, b, p, s, e)
  <1>1. CASE \A a \in s..e : c.write_map[p][a] = 0
    <2>1. d = Untouched(c, p)
      BY <1>1 DEF Written
    <2>2. Full(d) /\ Kept(c, d) /\ d.blocks = c.blocks
      BY <2>1, UntouchedFull
    <2>3. \A b \in Blocks : ~Covers(c, b, p, s, e)
      BY <1>1, NothingOver DEF Full
    <2> QED
      BY <2>2, <2>3 DEF Covers
  <1>2. CASE ~ \A a \in s..e : c.write_map[p][a] = 0
    <2>1. d = InvalidateRange(c, p, s, e)
      BY <1>2 DEF Written
    <2> QED
      BY <2>1, InvalidateFull
  <1> QED
    BY <1>1, <1>2

(* A handler for one page more. *)
LEMMA HandlerTaken ==
    ASSUME NEW c, Full(c), NEW p \in Pages, ~HasHandler(c, p), Len(c.used) < CachePages,
           NEW d, d = [c EXCEPT !.used = Append(@, p)]
    PROVE  Full(d) /\ Kept(c, d) /\ \A q : HasHandler(d, q) <=> q = p \/ HasHandler(c, q)
  <1> DEFINE s == c.used
             new == Append(c.used, p)
  <1>0. c \in Caches /\ s \in Seq(Pages)
    BY CodeFields DEF Full, Well
  <1>1. new \in Seq(Pages) /\ Len(new) = Len(s) + 1 /\ Len(s) \in Nat /\ new[Len(s) + 1] = p
        /\ \A k \in 1..Len(s) : new[k] = s[k]
    BY <1>0, AppendProperties, LenProperties
  <1> HIDE DEF new
  <1>2. /\ d \in Caches /\ d.blocks = c.blocks /\ d.code = c.code /\ d.active = c.active /\ d.free = c.free
        /\ d.write_map = c.write_map /\ d.used = new
    <2>1. d = [c EXCEPT !.used = new]
      BY DEF new
    <2> QED
      BY <1>0, <1>1, <2>1 DEF Caches
  <1>3. \A k \in 1..Len(s) : s[k] # p
    BY DEF HasHandler
  <1>4. Once(new)
    <2> SUFFICES ASSUME NEW k \in 1..Len(new), NEW l \in 1..Len(new), new[k] = new[l] PROVE k = l
      BY DEF Once
    <2>1. CASE k \in 1..Len(s) /\ l \in 1..Len(s)
      BY <1>1, <2>1 DEF Full, Once
    <2>2. CASE k \in 1..Len(s) /\ l = Len(s) + 1
      BY <1>1, <1>3, <2>2
    <2>3. CASE l \in 1..Len(s) /\ k = Len(s) + 1
      BY <1>1, <1>3, <2>3
    <2>4. CASE k = Len(s) + 1 /\ l = Len(s) + 1
      BY <2>4
    <2> QED
      BY <1>1, <2>1, <2>2, <2>3, <2>4
  <1>5. ASSUME NEW q PROVE HasHandler(d, q) <=> q = p \/ HasHandler(c, q)
    <2>1. ASSUME NEW k \in 1..Len(new), new[k] = q PROVE q = p \/ \E l \in 1..Len(s) : s[l] = q
      <3>1. CASE k \in 1..Len(s)
        BY <1>1, <2>1, <3>1
      <3>2. CASE k = Len(s) + 1
        BY <1>1, <2>1, <3>2
      <3> QED
        BY <1>1, <3>1, <3>2
    <2>2. ASSUME NEW l \in 1..Len(s), s[l] = q PROVE \E k \in 1..Len(new) : new[k] = q
      <3>1. l \in 1..Len(new) /\ new[l] = q
        BY <1>1, <2>2
      <3> QED
        BY <3>1
    <2>3. \E k \in 1..Len(new) : new[k] = p
      <3>1. Len(s) + 1 \in 1..Len(new)
        BY <1>1
      <3> QED
        BY <1>1, <3>1
    <2> QED
      BY <1>2, <2>1, <2>2, <2>3 DEF HasHandler
  <1>6. LiveIn(d) = LiveIn(c)
    BY <1>2 DEF LiveIn
  <1>7. Handled(d)
    BY <1>2, <1>5 DEF Full, Well, Handled
  <1>8. Conserved(d, LiveIn(d)) /\ Counted(d, Pages)
    BY <1>2, <1>6 DEF Full, Well, Conserved, Counted
  <1>9. Len(new) <= CachePages
    <2> DEFINE n == Len(s)
    <2>1. n \in Nat /\ CachePages \in Nat /\ n < CachePages /\ Len(new) = n + 1
      BY <1>1, CacheAssumption
    <2> HIDE DEF n
    <2> QED
      BY <2>1
  <1>10. Kept(c, d)
    BY <1>2, <1>6 DEF Kept
  <1>11. Full(d)
    <2>1. Linked(d.blocks, LiveIn(d)) /\ Paired(d.blocks, LiveIn(d)) /\ Stretches(d.blocks)
          /\ LiveIn(d) \in SUBSET Blocks
      BY <1>2, <1>6 DEF Full, Well
    <2>2. Well(d, LiveIn(d), Pages)
      BY <1>2, <1>7, <1>8, <2>1 DEF Well
    <2> QED
      BY <1>2, <1>4, <1>9, <1>10, <2>2, FullKept
  <1> QED
    BY <1>5, <1>10, <1>11

(* MakeCodePage: the page has a handler, and the page of the start keeps its own. *)
LEMMA MakeCodePageFull ==
    ASSUME NEW c, Full(c), NEW p \in Pages, NEW source, NEW d, d = MakeCodePage(c, p, source)
    PROVE  Full(d) /\ Kept(c, d) /\ HasHandler(d, p) /\ (HasHandler(c, source) => HasHandler(d, source))
  <1>1. CASE HasHandler(c, p)
    BY <1>1, KeptSame DEF MakeCodePage
  <1>2. CASE ~HasHandler(c, p) /\ Len(c.used) < CachePages
    <2>1. d = [c EXCEPT !.used = Append(@, p)]
      BY <1>2 DEF MakeCodePage
    <2> QED
      BY <1>2, <2>1, HandlerTaken
  <1>3. CASE ~HasHandler(c, p) /\ ~(Len(c.used) < CachePages)
    <2> DEFINE victim == IF c.used[1] # source THEN c.used[1] ELSE c.used[2]
               x == ClearRelease(c, victim)
    <2>1. d = [x EXCEPT !.used = Append(@, p)]
      BY <1>3 DEF MakeCodePage
    <2>2. c.used \in Seq(Pages) /\ Len(c.used) \in Nat /\ Len(c.used) = CachePages /\ CachePages > 1
      <3>1. c.used \in Seq(Pages)
        BY CodeFields DEF Full, Well
      <3>2. Len(c.used) <= CachePages
        BY DEF Full
      <3> QED
        BY <1>3, <3>1, <3>2, LenProperties, CacheAssumption
    <2>3. 1 \in 1..Len(c.used) /\ 2 \in 1..Len(c.used)
      BY <2>2, CacheAssumption
    <2>4. victim \in Pages /\ HasHandler(c, victim) /\ victim # source
      <3>1. c.used[1] \in Pages /\ c.used[2] \in Pages
        BY <2>2, <2>3, ElementOfSeq
      <3>2. c.used[1] # c.used[2]
        BY <2>3 DEF Full, Once
      <3> QED
        BY <2>3, <3>1, <3>2 DEF HasHandler
    <2> HIDE DEF victim
    <2>5. /\ Full(x) /\ Kept(c, x) /\ Len(x.used) = Len(c.used) - 1
          /\ \A q : HasHandler(x, q) <=> q # victim /\ HasHandler(c, q)
      BY <2>4, ClearReleaseFull
    <2> HIDE DEF x
    <2>6. ~HasHandler(x, p) /\ Len(x.used) < CachePages
      BY <1>3, <2>2, <2>5
    <2>7. Full(d) /\ Kept(x, d) /\ \A q : HasHandler(d, q) <=> q = p \/ HasHandler(x, q)
      BY <2>1, <2>5, <2>6, HandlerTaken
    <2> QED
      BY <2>4, <2>5, <2>7, KeptTrans
  <1> QED
    BY <1>1, <1>2, <1>3
-----------------------------------------------------------------------------
(* The memory: where the pieces end says what several of them hold.        *)
LEMMA PieceFields ==
    ASSUME NEW mem \in Seq(PieceRecs), NEW k \in 1..Len(mem)
    PROVE  mem[k] \in PieceRecs /\ mem[k].block \in Blocks /\ mem[k].size \in Nat /\ mem[k].size >= 1
  <1>1. mem[k] \in PieceRecs
    BY ElementOfSeq
  <1> QED
    BY <1>1 DEF PieceRecs

(* SizeOf is the difference of two sums. *)
LEMMA SizeOfIs ==
    ASSUME NEW c, c.code \in Seq(PieceRecs), NEW n \in Nat, n = Len(c.code), NEW S, Sums(c.code, S),
           NEW from \in 1..n, NEW to \in from..n
    PROVE  SizeOf(c, from, to) = S[to] - S[from - 1]
  <1> DEFINE R == (from - 1)..to
             size(k) == c.code[k].size
             Body(f) == [k \in R |-> IF k < from THEN 0 ELSE f[k - 1] + c.code[k].size]
             f0 == CHOOSE f : f = Body(f)
             g == [k \in R |-> S[k] - S[from - 1]]
  <1>1. SizeOf(c, from, to) = f0[to]
    BY DEF SizeOf
  <1>2. /\ \A k \in 0..n : S[k] \in Nat
        /\ \A k \in 1..n : S[k] = S[k - 1] + size(k) /\ size(k) \in Nat
    BY PieceFields DEF Sums
  <1>3. ASSUME NEW k \in R PROVE g[k] = IF k < from THEN 0 ELSE g[k - 1] + size(k)
    <2>1. CASE k < from
      <3>1. k = from - 1 /\ k \in 0..n
        BY <2>1
      <3> QED
        BY <1>2, <2>1, <3>1
    <2>2. CASE ~(k < from)
      <3>1. k \in 1..n /\ k - 1 \in R /\ k - 1 \in 0..n /\ k \in 0..n /\ from - 1 \in 0..n
        BY <2>2
      <3>2. g[k] = S[k] - S[from - 1] /\ g[k - 1] = S[k - 1] - S[from - 1]
        BY <3>1
      <3> DEFINE u == S[k]
                 v == S[k - 1]
                 w == S[from - 1]
                 x == size(k)
      <3>3. u = v + x /\ x \in Nat /\ u \in Nat /\ v \in Nat /\ w \in Nat
        BY <1>2, <3>1
      <3>4. g[k] = u - w /\ g[k - 1] = v - w
        BY <3>2
      <3> HIDE DEF g, u, v, w, x
      <3>5. g[k] = g[k - 1] + x
        BY <3>3, <3>4
      <3> QED
        BY <2>2, <3>5 DEF x
    <2> QED
      BY <2>1, <2>2
  <1>4. g = Body(g)
    <2>1. g = [k \in R |-> g[k]]
      OBVIOUS
    <2> HIDE DEF g, R
    <2> QED
      BY <1>3, <2>1
  <1>5. f0 = Body(f0)
    <2> HIDE DEF g, Body
    <2> QED
      BY <1>4
  <1> HIDE DEF f0
  <1> DEFINE Bad == {k \in Nat : k \in R /\ f0[k] # g[k]}
  <1>6. Bad = {}
    <2> SUFFICES ASSUME Bad # {} PROVE FALSE
      OBVIOUS
    <2>1. PICK k \in Bad : \A m \in Bad : k <= m
      <3>1. Bad \in SUBSET Nat
        OBVIOUS
      <3> HIDE DEF Bad
      <3> QED
        BY <3>1, LeastNatural
    <2>2. k \in Nat /\ k \in R /\ f0[k] # g[k]
      BY <2>1
    <2>3. f0[k] = IF k < from THEN 0 ELSE f0[k - 1] + size(k)
      <3> HIDE DEF R
      <3> QED
        BY <1>5, <2>2
    <2>4. g[k] = IF k < from THEN 0 ELSE g[k - 1] + size(k)
      BY <1>3, <2>2
    <2>5. ~(k < from)
      BY <2>2, <2>3, <2>4
    <2>6. k - 1 \in R /\ k - 1 \in Nat /\ ~(k <= k - 1)
      BY <2>2, <2>5
    <2>7. k - 1 \notin Bad
      <3> HIDE DEF Bad
      <3> QED
        BY <2>1, <2>6
    <2>8. f0[k - 1] = g[k - 1]
      <3> HIDE DEF g
      <3> QED
        BY <2>6, <2>7
    <2> HIDE DEF g
    <2> QED
      BY <2>2, <2>3, <2>4, <2>8
  <1>7. to \in R /\ to \in Nat
    OBVIOUS
  <1>8. f0[to] = g[to]
    <2> HIDE DEF g, R
    <2> QED
      BY <1>6, <1>7
  <1> QED
    BY <1>1, <1>7, <1>8

(* Sums grow with the pieces. *)
LEMMA SumsGrow ==
    ASSUME NEW mem \in Seq(PieceRecs), NEW S, Sums(mem, S), NEW k \in 0..Len(mem), NEW l \in k..Len(mem)
    PROVE  S[k] <= S[l]
  <1> DEFINE n == Len(mem)
             Bad == {m \in Nat : m \in k..n /\ ~(S[k] <= S[m])}
  <1>0. n \in Nat
    BY LenProperties
  <1>1. /\ \A m \in 0..n : S[m] \in Nat
        /\ \A m \in 1..n : S[m] = S[m - 1] + mem[m].size /\ mem[m].size \in Nat
    BY PieceFields DEF Sums
  <1> HIDE DEF n
  <1>2. Bad = {}
    <2> SUFFICES ASSUME Bad # {} PROVE FALSE
      OBVIOUS
    <2>1. PICK m \in Bad : \A j \in Bad : m <= j
      <3>1. Bad \in SUBSET Nat
        OBVIOUS
      <3> HIDE DEF Bad
      <3> QED
        BY <3>1, LeastNatural
    <2>2. m \in Nat /\ m \in k..n /\ ~(S[k] <= S[m]) /\ k \in 0..n
      BY <2>1 DEF n
    <2>3. m # k
      BY <1>0, <1>1, <2>2
    <2>4. m - 1 \in k..n /\ m - 1 \in Nat /\ ~(m <= m - 1) /\ m \in 1..n /\ m - 1 \in 0..n
      BY <1>0, <2>2, <2>3
    <2>5. m - 1 \notin Bad
      <3> HIDE DEF Bad
      <3> QED
        BY <2>1, <2>4
    <2>6. S[k] <= S[m - 1]
      BY <2>4, <2>5
    <2> DEFINE u == S[m]
               v == S[m - 1]
               x == mem[m].size
    <2>7. u = v + x /\ x \in Nat /\ v \in Nat /\ S[k] \in Nat /\ S[k] <= v /\ ~(S[k] <= u)
      BY <1>1, <2>2, <2>4, <2>6
    <2> HIDE DEF u, v, x
    <2> QED
      BY <2>7
  <1>3. l \in Nat /\ l \in k..n
    BY DEF n
  <1> QED
    BY <1>2, <1>3

(* No piece is larger than the memory. *)
LEMMA SizesFit ==
    ASSUME NEW mem \in Seq(PieceRecs), Measured(mem), NEW k \in 1..Len(mem)
    PROVE  mem[k].size \in 1..CacheTotal
  <1> DEFINE n == Len(mem)
  <1>1. PICK S : Sums(mem, S)
    BY DEF Measured
  <1>2. n \in Nat /\ k \in 0..n /\ n \in k..n /\ k - 1 \in 0..n
    BY LenProperties
  <1>3. S[k] \in Nat /\ S[k - 1] \in Nat /\ S[k] = S[k - 1] + mem[k].size /\ S[n] = CacheTotal
    BY <1>1, <1>2 DEF Sums
  <1>4. S[k] <= S[n]
    BY <1>1, <1>2, SumsGrow
  <1>5. mem[k].size \in Nat /\ mem[k].size >= 1
    BY PieceFields
  <1> HIDE DEF n
  <1> QED
    BY <1>3, <1>4, <1>5, CacheAssumption
-----------------------------------------------------------------------------
(* Opening: the pieces behind the active one become part of it.            *)
LEMMA MinIn ==
    ASSUME NEW T \in SUBSET Nat, T # {}
    PROVE  Min(T) \in T /\ \A n \in T : Min(T) <= n
  BY LeastNatural DEF Min

(* The active piece is where Place says. *)
LEMMA PlaceIs ==
    ASSUME NEW c, NEW A, Conserved(c, A)
    PROVE  Place(c, c.active) \in 1..Len(c.code) /\ c.code[Place(c, c.active)].block = c.active
  BY DEF Conserved, PieceBlocks, Place

(* The structures and the pages are as before, the memory is parted anew. *)
LEMMA PartedAnew ==
    ASSUME NEW c, Full(c), NEW d \in Caches, d.blocks = c.blocks, d.write_map = c.write_map, d.used = c.used,
           Apart(d.code), d.active \in PieceBlocks(d.code), Measured(d.code),
           Parts(PieceBlocks(d.code), CrossOf(c.blocks, LiveIn(c)), d.free),
           \A b \in LiveIn(c) : c.blocks[b].hashed => b \in PieceBlocks(d.code)
    PROVE  Full(d) /\ LiveIn(d) = LiveIn(c)
  <1>1. LiveIn(d) = LiveIn(c)
    BY DEF LiveIn
  <1>2. Conserved(d, LiveIn(d))
    BY <1>1 DEF Conserved
  <1>3. Counted(d, Pages) /\ Handled(d) /\ Once(d.used) /\ Len(d.used) <= CachePages
    BY DEF Full, Well, Counted, Handled, HasHandler
  <1>4. Linked(d.blocks, LiveIn(d)) /\ Paired(d.blocks, LiveIn(d)) /\ Stretches(d.blocks) /\ LiveIn(d) \in SUBSET Blocks
    BY <1>1 DEF Full, Well
  <1> QED
    BY <1>1, <1>2, <1>3, <1>4 DEF Full, Well, Rooted

(* Pieces k to n are made one. *)
Merged(mem, k, n, piece) == Instead(mem, k, n, <<piece>>)

(* Where the pieces behind the merged ones were before. *)
LEMMA Behind ==
    ASSUME NEW len \in Nat, NEW gone \in Nat, NEW k \in Nat \ {0}, NEW j \in Nat, j > k, j <= len - gone
    PROVE  j + gone \in 1..len /\ j + gone \notin k..(k + gone)
  OBVIOUS

(* Merging pieces keeps the memory measured and their structures apart. *)
LEMMA MergedIs ==
    ASSUME NEW mem \in Seq(PieceRecs), Apart(mem), NEW k \in 1..Len(mem), NEW n \in k..Len(mem),
           NEW piece \in PieceRecs, piece.block = mem[k].block,
           NEW S, Sums(mem, S), piece.size = S[n] - S[k - 1]
    PROVE  LET new  == Merged(mem, k, n, piece)
               mine == {mem[j].block : j \in k..n}
           IN  /\ new \in Seq(PieceRecs) /\ Apart(new) /\ Measured(new)
               /\ PieceBlocks(new) = PieceBlocks(mem) \ (mine \ {piece.block})
  <1> DEFINE new == Merged(mem, k, n, piece)
             one == <<piece>>
             mine == {mem[j].block : j \in k..n}
             gone == n - k
             len == Len(mem)
             at(j) == IF j <= k THEN j ELSE j + gone
  <1>1. len \in Nat /\ k \in 1..len /\ n \in 1..len /\ k <= n /\ gone \in Nat
    BY LenProperties
  <1>2. one \in Seq(PieceRecs) /\ Len(one) = 1 /\ one[1] = piece
    OBVIOUS
  <1>11. new = Instead(mem, k, n, one)
    BY DEF Merged
  <1> HIDE DEF one, new
  <1>3. /\ new \in Seq(PieceRecs) /\ Len(new) = (k - 1) + Len(one) + (Len(mem) - n)
        /\ \A j \in 1..Len(new) : new[j] = IF j < k THEN mem[j]
                                           ELSE IF j < k + Len(one) THEN one[j - (k - 1)]
                                           ELSE mem[(j - ((k - 1) + Len(one))) + n]
    <2>1. new \in Seq(PieceRecs) /\ Placed(new, mem, k, n, one)
      BY <1>2, <1>11, Replaced
    <2> QED
      BY <2>1 DEF Placed
  <1>4. Len(new) = len - gone
    BY <1>1, <1>2, <1>3
  <1>5. ASSUME NEW j \in 1..Len(new), j # k PROVE new[j] = mem[at(j)] /\ at(j) \in 1..len /\ at(j) \notin k..n
    <2>1. CASE j < k
      <3>1. new[j] = mem[j]
        BY <1>3, <2>1
      <3> QED
        BY <1>1, <1>4, <2>1, <3>1
    <2>2. CASE ~(j < k)
      <3>1. ~(j < k + Len(one)) /\ (j - ((k - 1) + Len(one))) + n = j + gone /\ ~(j <= k)
        <4>1. j \in Nat /\ k \in Nat /\ n \in Nat /\ gone = n - k /\ Len(one) = 1 /\ j # k /\ ~(j < k)
          BY <1>1, <1>2, <1>5, <2>2
        <4> HIDE DEF gone, one
        <4> QED
          BY <4>1
      <3>2. new[j] = mem[j + gone]
        BY <1>3, <2>2, <3>1
      <3>3. j + gone \in 1..len /\ j + gone \notin k..n
        <4> DEFINE l == Len(new)
        <4>1. /\ len \in Nat /\ k \in Nat /\ gone \in Nat /\ n = k + gone /\ l = len - gone /\ l \in Int
              /\ k >= 1 /\ j \in Nat /\ j <= l /\ j > k
          BY <1>1, <1>4, <1>5, <2>2
        <4> HIDE DEF l, len, gone
        <4> QED
          BY <4>1, Behind
      <3> QED
        BY <3>1, <3>2, <3>3
    <2> QED
      BY <2>1, <2>2
  <1>6. k \in 1..Len(new) /\ new[k] = piece
    <2>1. k \in 1..Len(new)
      BY <1>1, <1>4
    <2>2. ~(k < k) /\ k < k + Len(one) /\ k - (k - 1) = 1
      BY <1>1, <1>2
    <2>3. new[k] = one[k - (k - 1)]
      BY <1>3, <2>1, <2>2
    <2> QED
      BY <1>2, <2>1, <2>2, <2>3
  <1>7. \A j \in 1..Len(new) : new[j].block = mem[at(j)].block /\ at(j) \in 1..len
    <2> SUFFICES ASSUME NEW j \in 1..Len(new) PROVE new[j].block = mem[at(j)].block /\ at(j) \in 1..len
      OBVIOUS
    <2>1. CASE j = k
      BY <1>1, <1>6, <2>1
    <2>2. CASE j # k
      <3> HIDE DEF at
      <3> QED
        BY <1>5, <2>2
    <2> QED
      BY <2>1, <2>2
  <1>8. Apart(new)
    <2> SUFFICES ASSUME NEW i \in 1..Len(new), NEW j \in 1..Len(new), new[i].block = new[j].block PROVE i = j
      BY DEF Apart
    <2>1. mem[at(i)].block = mem[at(j)].block /\ at(i) \in 1..len /\ at(j) \in 1..len
      BY <1>7
    <2>2. at(i) = at(j)
      <3> HIDE DEF at
      <3> QED
        BY <2>1 DEF Apart
    <2> QED
      BY <1>1, <2>2
  <1>9. PieceBlocks(new) = PieceBlocks(mem) \ (mine \ {piece.block})
    <2>1. ASSUME NEW b \in PieceBlocks(new) PROVE b \in PieceBlocks(mem) \ (mine \ {piece.block})
      <3>1. PICK j \in 1..Len(new) : b = new[j].block
        BY DEF PieceBlocks
      <3>2. b \in PieceBlocks(mem)
        <4> HIDE DEF at
        <4> QED
          BY <1>7, <3>1 DEF PieceBlocks
      <3>3. ASSUME b \in mine PROVE b = piece.block
        <4>1. PICK i \in k..n : b = mem[i].block
          BY <3>3
        <4>2. CASE j = k
          BY <1>6, <3>1, <4>2
        <4>3. CASE j # k
          <5>1. at(j) \in 1..len /\ at(j) \notin k..n /\ new[j] = mem[at(j)]
            <6> HIDE DEF at
            <6> QED
              BY <1>5, <4>3
          <5>2. i \in 1..len
            BY <1>1
          <5> HIDE DEF at
          <5>3. mem[at(j)].block = mem[i].block
            BY <3>1, <4>1, <5>1
          <5> QED
            BY <5>1, <5>2, <5>3 DEF Apart
        <4> QED
          BY <4>2, <4>3
      <3> QED
        BY <3>2, <3>3
    <2>2. ASSUME NEW b \in PieceBlocks(mem), b \notin mine \/ b = piece.block PROVE b \in PieceBlocks(new)
      <3>1. CASE b = piece.block
        BY <1>6, <3>1 DEF PieceBlocks
      <3>2. CASE b # piece.block
        <4>1. PICK i \in 1..len : b = mem[i].block
          BY DEF PieceBlocks
        <4>2. i \notin k..n
          BY <2>2, <3>2, <4>1
        <4> DEFINE j == IF i < k THEN i ELSE i - gone
        <4>3. j \in 1..Len(new) /\ at(j) = i
          BY <1>1, <1>4, <4>2
        <4> HIDE DEF j, at
        <4>4. new[j].block = b
          BY <1>7, <4>1, <4>3
        <4> QED
          BY <4>3, <4>4 DEF PieceBlocks
      <3> QED
        BY <3>1, <3>2
    <2> QED
      BY <2>1, <2>2
  <1>10. Measured(new)
    <2> DEFINE m == Len(new)
               T == [j \in 0..m |-> IF j < k THEN S[j] ELSE S[j + gone]]
    <2>1. \A j \in 0..len : S[j] \in Nat
      BY DEF Sums
    <2>2. \A j \in 1..len : S[j] = S[j - 1] + mem[j].size
      BY DEF Sums
    <2>3. S[0] = 0 /\ S[len] = CacheTotal
      BY DEF Sums
    <2>4. m = len - gone /\ m \in Nat /\ k \in 1..m
      BY <1>1, <1>4, <1>6
    <2>5. \A j \in 0..m : (j < k => j \in 0..len) /\ (~(j < k) => j + gone \in 0..len)
      BY <1>1, <2>4
    <2>6. T \in [0..m -> Nat]
      BY <2>1, <2>5
    <2>7. T[0] = 0 /\ T[m] = CacheTotal
      <3>1. 0 \in 0..m /\ 0 < k /\ m \in 0..m /\ ~(m < k) /\ m + gone = len
        BY <1>1, <2>4
      <3> QED
        BY <2>3, <3>1
    <2>8. ASSUME NEW j \in 1..m PROVE T[j] = T[j - 1] + new[j].size
      <3>0. j \in 0..m /\ j - 1 \in 0..m
        BY <2>4
      <3>1. CASE j < k
        <4>1. T[j] = S[j] /\ T[j - 1] = S[j - 1]
          BY <3>0, <3>1
        <4>2. new[j] = mem[j] /\ j \in 1..len
          BY <1>5, <3>1
        <4> HIDE DEF T
        <4> QED
          BY <2>2, <4>1, <4>2
      <3>2. CASE j = k
        <4>1. T[j] = S[n] /\ T[j - 1] = S[k - 1] /\ k - 1 \in 0..len /\ n \in 0..len
          <5>1. j + gone = n /\ ~(j < k) /\ j - 1 < k /\ k - 1 \in 0..len /\ n \in 0..len
            BY <1>1, <3>2
          <5> QED
            BY <3>0, <3>2, <5>1
        <4>2. new[j].size = S[n] - S[k - 1]
          BY <1>6, <3>2
        <4> DEFINE u == S[n]
                   v == S[k - 1]
        <4>3. u \in Nat /\ v \in Nat /\ T[j] = u /\ T[j - 1] = v /\ new[j].size = u - v
          BY <2>1, <4>1, <4>2
        <4> HIDE DEF T, u, v
        <4> QED
          BY <4>3
      <3>3. CASE j > k
        <4>1. T[j] = S[j + gone] /\ T[j - 1] = S[(j + gone) - 1] /\ j + gone \in 1..len
          <5>1. ~(j < k) /\ ~(j - 1 < k) /\ (j - 1) + gone = (j + gone) - 1 /\ j + gone \in 1..len
            BY <1>1, <2>4, <3>3
          <5> QED
            BY <3>0, <5>1
        <4>2. new[j] = mem[j + gone]
          <5>1. at(j) = j + gone /\ j # k
            BY <1>1, <3>3
          <5> HIDE DEF at
          <5> QED
            BY <1>5, <5>1
        <4> HIDE DEF T
        <4> QED
          BY <2>2, <4>1, <4>2
      <3> QED
        BY <1>1, <3>1, <3>2, <3>3
    <2> HIDE DEF T
    <2>9. Sums(new, T)
      BY <2>6, <2>7, <2>8 DEF Sums
    <2> QED
      BY <2>9 DEF Measured
  <1> QED
    BY <1>3, <1>8, <1>9, <1>10 DEF new

(* cache_openblock: the room is one piece, and no block of it is alive. *)
LEMMA OpenBlockFull ==
    ASSUME NEW c, Full(c), NEW d, d = OpenBlock(c)
    PROVE  /\ Full(d) /\ d.active = c.active /\ d.used = c.used
           /\ LiveIn(d) \subseteq LiveIn(c) /\ c.active \notin LiveIn(d)
  <1> DEFINE k    == Place(c, c.active)
             ends == {n \in k..Len(c.code) : SizeOf(c, k, n) >= CacheMaxSize}
             end  == IF ends = {} THEN Len(c.code) ELSE Min(ends)
             mine == {c.code[n].block : n \in k..end}
             piece == [block |-> c.active, size |-> SizeOf(c, k, end)]
             x == ClearLive(c, mine)
             F == x.free \cup (mine \ {c.active})
             new == Merged(c.code, k, end, piece)
  <1>1. d = [x EXCEPT !.free = F, !.code = SubSeq(x.code, 1, k - 1) \o <<piece>> \o SubSeq(x.code, end + 1, Len(x.code))]
    BY DEF OpenBlock, ClearLive
  <1>2. /\ c \in Caches /\ Conserved(c, LiveIn(c)) /\ Paired(c.blocks, LiveIn(c)) /\ LiveIn(c) \in SUBSET Blocks
        /\ c.code \in Seq(PieceRecs) /\ c.active \in Blocks
    <2>1. c \in Caches /\ Conserved(c, LiveIn(c)) /\ Paired(c.blocks, LiveIn(c)) /\ LiveIn(c) \in SUBSET Blocks
      BY DEF Full, Well
    <2> QED
      BY <2>1, CodeFields
  <1>3. k \in 1..Len(c.code) /\ c.code[k].block = c.active /\ Len(c.code) \in Nat
    BY <1>2, PlaceIs, LenProperties
  <1> HIDE DEF k
  <1>4. end \in k..Len(c.code)
    <2>1. ends \in SUBSET Nat /\ ends \subseteq k..Len(c.code)
      BY <1>3
    <2> HIDE DEF ends
    <2>2. ends # {} => Min(ends) \in k..Len(c.code)
      BY <2>1, MinIn
    <2>3. Len(c.code) \in k..Len(c.code)
      BY <1>3
    <2> QED
      BY <2>2, <2>3, Zenon
  <1> HIDE DEF ends, end
  <1>5. PICK S : Sums(c.code, S)
    BY DEF Full, Measured
  <1>6. SizeOf(c, k, end) = S[end] - S[k - 1]
    BY <1>2, <1>3, <1>4, <1>5, SizeOfIs
  <1>7. piece \in PieceRecs
    <2> DEFINE n == Len(c.code)
               u == S[end]
               v == S[k - 1]
               w == S[k]
               y == c.code[k].size
    <2>1. end \in 0..n /\ k - 1 \in 0..n /\ k \in 0..n /\ end \in k..n
      BY <1>3, <1>4
    <2>2. u \in Nat /\ v \in Nat /\ w \in Nat /\ w = v + y
      BY <1>3, <1>5, <2>1 DEF Sums
    <2>3. w <= u
      BY <1>2, <1>5, <2>1, SumsGrow
    <2>4. y \in Nat /\ y >= 1
      BY <1>2, <1>3, PieceFields
    <2>5. SizeOf(c, k, end) = u - v
      BY <1>6
    <2> HIDE DEF u, v, w, y
    <2>6. SizeOf(c, k, end) \in Nat \ {0}
      BY <2>2, <2>3, <2>4, <2>5
    <2> QED
      BY <1>2, <2>6 DEF PieceRecs
  <1>8. piece.block = c.active /\ piece.size = S[end] - S[k - 1]
    BY <1>6
  <1> HIDE DEF piece
  <1>9. Apart(c.code) /\ Parts(PieceBlocks(c.code), CrossOf(c.blocks, LiveIn(c)), c.free)
    BY <1>2 DEF Conserved
  <1>10. /\ new \in Seq(PieceRecs) /\ Apart(new) /\ Measured(new)
         /\ PieceBlocks(new) = PieceBlocks(c.code) \ (mine \ {c.active})
    BY <1>2, <1>3, <1>4, <1>5, <1>7, <1>8, <1>9, MergedIs
  <1>11. mine \subseteq PieceBlocks(c.code) /\ c.active \in mine /\ mine \in SUBSET Blocks
    <2>1. \A n \in k..end : n \in 1..Len(c.code)
      BY <1>3, <1>4
    <2>2. mine \subseteq PieceBlocks(c.code)
      BY <2>1 DEF PieceBlocks
    <2>3. k \in k..end
      BY <1>3, <1>4
    <2>4. PieceBlocks(c.code) \subseteq Blocks
      BY <1>9 DEF Parts
    <2> QED
      BY <1>3, <2>2, <2>3, <2>4
  <1> HIDE DEF mine, new
  <1>12. \A b \in mine \cap LiveIn(c) : c.blocks[b].other \notin mine
    <2> SUFFICES ASSUME NEW b \in mine, b \in LiveIn(c), c.blocks[b].other \in mine PROVE FALSE
      OBVIOUS
    <2>1. None \notin Blocks /\ c.blocks[b].other # None
      BY <1>11, CodeConstants
    <2>2. /\ c.blocks[b].other \in LiveIn(c)
          /\ c.blocks[c.blocks[b].other].hashed # c.blocks[b].hashed
      BY <1>2, <2>1 DEF Paired
    <2>3. b \in PieceBlocks(c.code) /\ c.blocks[b].other \in PieceBlocks(c.code)
      BY <1>11
    <2>4. b \notin CrossOf(c.blocks, LiveIn(c)) /\ c.blocks[b].other \notin CrossOf(c.blocks, LiveIn(c))
      BY <1>9, <2>3 DEF Parts
    <2>5. c.blocks[b].hashed /\ c.blocks[c.blocks[b].other].hashed
      BY <2>2, <2>4 DEF CrossOf
    <2>6. c.blocks \in BlockMaps
      BY <1>2, CodeFields
    <2>7. c.blocks[b].hashed \in BOOLEAN /\ c.blocks[c.blocks[b].other].hashed \in BOOLEAN
      BY <1>11, <2>6, BlockFields
    <2> QED
      BY <2>2, <2>5, <2>7
  <1>13. Well(x, LiveIn(x), Pages) /\ Cleared(c, x, LiveIn(x)) /\ LiveIn(x) \subseteq LiveIn(c) \ mine
    BY <1>11, <1>12, ClearLiveWell DEF Full
  <1> HIDE DEF x
  <1>14. x \in Caches /\ x.code = c.code /\ x.active = c.active /\ x.used = c.used
    BY <1>13 DEF Well, Cleared, Same
  <1>15. Full(x)
    <2>1. Kept(c, x)
      BY <1>13, ClearedKept
    <2> QED
      BY <1>13, <1>14, <2>1, FullKept DEF Full
  <1>16. d = [x EXCEPT !.free = F, !.code = new]
    BY <1>1, <1>14 DEF new, Merged, Instead
  <1>17. F \in SUBSET Blocks
    <2>1. x.free \in SUBSET Blocks
      BY <1>14, CodeFields
    <2> QED
      BY <1>11, <2>1
  <1> HIDE DEF F
  <1>18. /\ d \in Caches /\ d.blocks = x.blocks /\ d.code = new /\ d.active = x.active /\ d.free = F
         /\ d.write_map = x.write_map /\ d.used = x.used
    BY <1>10, <1>14, <1>16, <1>17 DEF Caches
  <1>19. Parts(PieceBlocks(c.code), CrossOf(x.blocks, LiveIn(x)), x.free)
    BY <1>13, <1>14 DEF Well, Conserved
  <1>20. Parts(PieceBlocks(new), CrossOf(x.blocks, LiveIn(x)), F)
    BY <1>10, <1>11, <1>19 DEF Parts, F
  <1>21. c.active \in PieceBlocks(new)
    BY <1>10, <1>11
  <1> HIDE <1>1, <1>16
  <1>22. \A b \in LiveIn(x) : x.blocks[b].hashed => b \in PieceBlocks(d.code)
    BY <1>10, <1>13, <1>14, <1>15, <1>18 DEF Full, Rooted
  <1>23. Full(d) /\ LiveIn(d) = LiveIn(x)
    BY <1>10, <1>14, <1>15, <1>18, <1>20, <1>21, <1>22, PartedAnew
  <1> QED
    BY <1>11, <1>13, <1>14, <1>18, <1>23
-----------------------------------------------------------------------------
(* Closing: the active piece is cut behind what was written.               *)
LEMMA RoundedIs ==
    ASSUME NEW written \in Nat \ {0}
    PROVE  /\ Rounded(written) \in Nat /\ Rounded(written) >= written
           /\ Rounded(written) < written + CacheAlign
  <1> DEFINE n == written - 1
             q == n \div CacheAlign
             m == CacheAlign * q
  <1>1. CacheAlign \in Nat \ {0} /\ n \in Nat
    BY CacheAssumption
  <1> HIDE DEF n
  <1>2. q \in Nat /\ m <= n /\ n < m + CacheAlign
    BY <1>1, Quotient
  <1> HIDE DEF q
  <1>3. m \in Nat
    BY <1>1, <1>2
  <1>4. (q + 1) * CacheAlign = m + CacheAlign
    BY <1>1, <1>2
  <1>5. Rounded(written) = (q + 1) * CacheAlign
    BY DEF Rounded, q, n
  <1> HIDE DEF m
  <1> QED
    BY <1>1, <1>2, <1>3, <1>4, <1>5 DEF n

CutIn(mem, k, piece, rest) == Instead(mem, k, k, <<piece, rest>>)

(* Cutting a piece in two keeps the memory measured and the structures apart. *)
LEMMA CutIs ==
    ASSUME NEW mem \in Seq(PieceRecs), Apart(mem), Measured(mem), NEW k \in 1..Len(mem),
           NEW piece \in PieceRecs, NEW rest \in PieceRecs, piece.block = mem[k].block,
           rest.block \notin PieceBlocks(mem), mem[k].size = piece.size + rest.size
    PROVE  LET new == CutIn(mem, k, piece, rest)
           IN  /\ new \in Seq(PieceRecs) /\ Apart(new) /\ Measured(new)
               /\ PieceBlocks(new) = PieceBlocks(mem) \cup {rest.block}
  <1> DEFINE new == CutIn(mem, k, piece, rest)
             two == <<piece, rest>>
             len == Len(mem)
             at(j) == IF j <= k THEN j ELSE j - 1
  <1>1. len \in Nat /\ k \in 1..len /\ k \in k..len
    BY LenProperties
  <1>2. two \in Seq(PieceRecs) /\ Len(two) = 2 /\ two[1] = piece /\ two[2] = rest
    OBVIOUS
  <1>3. new = Instead(mem, k, k, two)
    BY DEF CutIn
  <1> HIDE DEF two, new
  <1>4. /\ new \in Seq(PieceRecs) /\ Len(new) = (k - 1) + Len(two) + (Len(mem) - k)
        /\ \A j \in 1..Len(new) : new[j] = IF j < k THEN mem[j]
                                           ELSE IF j < k + Len(two) THEN two[j - (k - 1)]
                                           ELSE mem[(j - ((k - 1) + Len(two))) + k]
    <2>1. new \in Seq(PieceRecs) /\ Placed(new, mem, k, k, two)
      BY <1>1, <1>2, <1>3, Replaced
    <2> QED
      BY <2>1 DEF Placed
  <1>5. Len(new) = len + 1
    BY <1>1, <1>2, <1>4
  <1>6. \A j \in 1..Len(new) : /\ j < k => new[j] = mem[j] /\ j \in 1..len
                               /\ j > k + 1 => new[j] = mem[j - 1] /\ j - 1 \in 1..len
    <2> SUFFICES ASSUME NEW j \in 1..Len(new)
                 PROVE  /\ j < k => new[j] = mem[j] /\ j \in 1..len
                        /\ j > k + 1 => new[j] = mem[j - 1] /\ j - 1 \in 1..len
      OBVIOUS
    <2>1. ASSUME j < k PROVE new[j] = mem[j] /\ j \in 1..len
      <3>1. new[j] = mem[j]
        BY <1>4, <2>1
      <3>2. j \in 1..len
        BY <1>1, <2>1
      <3> QED
        BY <3>1, <3>2
    <2>2. ASSUME j > k + 1 PROVE new[j] = mem[j - 1] /\ j - 1 \in 1..len
      <3>1. ~(j < k) /\ ~(j < k + Len(two)) /\ (j - ((k - 1) + Len(two))) + k = j - 1
        BY <1>1, <1>2, <2>2
      <3>2. new[j] = mem[j - 1]
        BY <1>4, <3>1
      <3>3. j - 1 \in 1..len
        BY <1>1, <1>5, <2>2
      <3> QED
        BY <3>2, <3>3
    <2> QED
      BY <2>1, <2>2
  <1>7. /\ k \in 1..Len(new) /\ new[k] = piece
        /\ k + 1 \in 1..Len(new) /\ new[k + 1] = rest
    <2>1. k \in 1..Len(new) /\ k + 1 \in 1..Len(new)
      BY <1>1, <1>5
    <2>2. ~(k < k) /\ k < k + Len(two) /\ k - (k - 1) = 1
          /\ ~(k + 1 < k) /\ k + 1 < k + Len(two) /\ (k + 1) - (k - 1) = 2
      BY <1>1, <1>2
    <2>3. new[k] = two[k - (k - 1)]
      BY <1>4, <2>1, <2>2
    <2>4. new[k + 1] = two[(k + 1) - (k - 1)]
      BY <1>4, <2>1, <2>2
    <2> QED
      BY <1>2, <2>1, <2>2, <2>3, <2>4
  <1>8. \A j \in 1..Len(new) : j # k + 1 => new[j].block = mem[at(j)].block /\ at(j) \in 1..len
    <2> SUFFICES ASSUME NEW j \in 1..Len(new), j # k + 1 PROVE new[j].block = mem[at(j)].block /\ at(j) \in 1..len
      OBVIOUS
    <2>1. CASE j < k
      <3>1. new[j] = mem[j] /\ j \in 1..len /\ at(j) = j
        BY <1>1, <1>6, <2>1
      <3> HIDE DEF at
      <3> QED
        BY <3>1
    <2>2. CASE j = k
      BY <1>1, <1>7, <2>2
    <2>3. CASE j > k + 1
      <3>1. at(j) = j - 1
        BY <1>1, <2>3
      <3>2. new[j] = mem[j - 1] /\ j - 1 \in 1..len
        BY <1>6, <2>3
      <3> HIDE DEF at
      <3> QED
        BY <3>1, <3>2
    <2> QED
      BY <1>1, <2>1, <2>2, <2>3
  <1>9. \A j \in 1..Len(new) : j # k + 1 => new[j].block \in PieceBlocks(mem)
    <2> HIDE DEF at
    <2> QED
      BY <1>8 DEF PieceBlocks
  <1>10. Apart(new)
    <2> SUFFICES ASSUME NEW i \in 1..Len(new), NEW j \in 1..Len(new), new[i].block = new[j].block PROVE i = j
      BY DEF Apart
    <2>1. CASE i = k + 1 \/ j = k + 1
      BY <1>7, <1>9, <2>1
    <2>2. CASE i # k + 1 /\ j # k + 1
      <3>1. mem[at(i)].block = mem[at(j)].block /\ at(i) \in 1..len /\ at(j) \in 1..len
        BY <1>8, <2>2
      <3>2. at(i) = at(j)
        <4> HIDE DEF at
        <4> QED
          BY <3>1 DEF Apart
      <3> QED
        BY <1>1, <2>2, <3>2
    <2> QED
      BY <2>1, <2>2
  <1>11. PieceBlocks(new) = PieceBlocks(mem) \cup {rest.block}
    <2>1. PieceBlocks(new) \subseteq PieceBlocks(mem) \cup {rest.block}
      BY <1>7, <1>9 DEF PieceBlocks
    <2>2. rest.block \in PieceBlocks(new)
      BY <1>7 DEF PieceBlocks
    <2>3. ASSUME NEW b \in PieceBlocks(mem) PROVE b \in PieceBlocks(new)
      <3>1. PICK i \in 1..len : b = mem[i].block
        BY DEF PieceBlocks
      <3> DEFINE j == IF i <= k THEN i ELSE i + 1
      <3>2. j \in 1..Len(new) /\ j # k + 1 /\ at(j) = i
        BY <1>1, <1>5
      <3> HIDE DEF j, at
      <3>3. new[j].block = b
        BY <1>8, <3>1, <3>2
      <3> QED
        BY <3>2, <3>3 DEF PieceBlocks
    <2> QED
      BY <2>1, <2>2, <2>3
  <1>12. Measured(new)
    <2>0. PICK S : Sums(mem, S)
      BY DEF Measured
    <2> DEFINE m == Len(new)
               u == S[k - 1]
               T == [j \in 0..m |-> IF j < k THEN S[j] ELSE IF j = k THEN u + piece.size ELSE S[j - 1]]
    <2>1. \A j \in 0..len : S[j] \in Nat
      BY <2>0 DEF Sums
    <2>2. \A j \in 1..len : S[j] = S[j - 1] + mem[j].size
      BY <2>0 DEF Sums
    <2>3. S[0] = 0 /\ S[len] = CacheTotal
      BY <2>0 DEF Sums
    <2>4. m = len + 1 /\ m \in Nat /\ k \in 1..m /\ k - 1 \in 0..len
      BY <1>1, <1>5, <1>7
    <2>5. u \in Nat /\ piece.size \in Nat /\ rest.size \in Nat
      <3>1. u \in Nat
        BY <2>1, <2>4
      <3> QED
        BY <3>1 DEF PieceRecs
    <2>6. T \in [0..m -> Nat]
      <3> SUFFICES ASSUME NEW j \in 0..m
                   PROVE  (IF j < k THEN S[j] ELSE IF j = k THEN u + piece.size ELSE S[j - 1]) \in Nat
        OBVIOUS
      <3>1. (j < k => j \in 0..len) /\ (j > k => j - 1 \in 0..len) /\ (j < k \/ j = k \/ j > k)
        BY <1>1, <2>4
      <3>2. u + piece.size \in Nat
        <4> DEFINE y == piece.size
        <4>1. u \in Nat /\ y \in Nat
          BY <2>5
        <4> HIDE DEF u, y
        <4>2. u + y \in Nat
          BY <4>1
        <4> QED
          BY <4>2 DEF y
      <3> HIDE DEF u
      <3>3. ASSUME j < k PROVE S[j] \in Nat
        BY <2>1, <3>1, <3>3
      <3>4. ASSUME j > k PROVE S[j - 1] \in Nat
        BY <2>1, <3>1, <3>4
      <3> QED
        BY <3>1, <3>2, <3>3, <3>4
    <2>7. T[0] = 0 /\ T[m] = CacheTotal
      <3>1. 0 \in 0..m /\ 0 < k /\ m \in 0..m /\ ~(m < k) /\ m # k /\ m - 1 = len
        BY <1>1, <2>4
      <3> HIDE DEF u
      <3> QED
        BY <2>3, <3>1
    <2>8. ASSUME NEW j \in 1..m PROVE T[j] = T[j - 1] + new[j].size
      <3>0. j \in 0..m /\ j - 1 \in 0..m
        BY <2>4
      <3>1. CASE j < k
        <4>0. j - 1 < k
          BY <1>1, <3>1
        <4>1. T[j] = S[j] /\ T[j - 1] = S[j - 1]
          BY <3>0, <3>1, <4>0
        <4>2. new[j] = mem[j] /\ j \in 1..len
          BY <1>6, <3>1
        <4> HIDE DEF T
        <4> QED
          BY <2>2, <4>1, <4>2
      <3>2. CASE j = k
        <4>0. j - 1 < k /\ ~(j < k)
          BY <1>1, <3>2
        <4>1. T[j] = u + piece.size /\ T[j - 1] = u
          BY <3>0, <3>2, <4>0
        <4>2. new[j] = piece
          BY <1>7, <3>2
        <4> HIDE DEF T, u
        <4> QED
          BY <4>1, <4>2
      <3>3. CASE j = k + 1
        <4>0. ~(j < k) /\ j # k /\ j - 1 = k /\ ~(k < k) /\ k \in 1..len /\ k \in 0..m
          BY <1>1, <2>4, <3>3
        <4>1. T[j] = S[k] /\ T[j - 1] = u + piece.size
          <5> HIDE DEF u
          <5>1. T[j] = S[j - 1] /\ T[k] = u + piece.size
            BY <3>0, <4>0
          <5> QED
            BY <4>0, <5>1
        <4>2. new[j] = rest
          BY <1>7, <3>3
        <4>3. S[k] = u + mem[k].size
          BY <2>2, <4>0
        <4> DEFINE x == S[k]
        <4>4. x = u + (piece.size + rest.size) /\ T[j] = x
          BY <4>1, <4>3
        <4> HIDE DEF T, u, x
        <4> QED
          BY <2>5, <4>1, <4>2, <4>4
      <3>4. CASE j > k + 1
        <4>0. ~(j < k) /\ j # k /\ ~(j - 1 < k) /\ j - 1 # k /\ j - 1 \in 1..len
          BY <1>1, <2>4, <3>4
        <4> HIDE DEF u
        <4>1. T[j] = S[j - 1] /\ T[j - 1] = S[(j - 1) - 1]
          BY <3>0, <4>0
        <4>2. new[j] = mem[j - 1]
          BY <1>6, <3>4
        <4> HIDE DEF T
        <4> QED
          BY <2>2, <4>0, <4>1, <4>2
      <3> QED
        BY <1>1, <3>1, <3>2, <3>3, <3>4
    <2> HIDE DEF T
    <2>9. Sums(new, T)
      BY <2>6, <2>7, <2>8 DEF Sums
    <2> QED
      BY <2>9 DEF Measured
  <1> QED
    BY <1>4, <1>10, <1>11, <1>12 DEF new

(* What is free stands for nothing. *)
LEMMA FreeDead ==
    ASSUME NEW c, Full(c)
    PROVE  c.free \in SUBSET Blocks /\ c.free \cap LiveIn(c) = {} /\ c.free \cap PieceBlocks(c.code) = {}
  <1>1. Parts(PieceBlocks(c.code), CrossOf(c.blocks, LiveIn(c)), c.free)
    BY DEF Full, Well, Conserved
  <1>2. c.free \in SUBSET Blocks /\ c.free \cap PieceBlocks(c.code) = {} /\ c.free \cap CrossOf(c.blocks, LiveIn(c)) = {}
    BY <1>1 DEF Parts
  <1>3. \A b \in LiveIn(c) : b \in PieceBlocks(c.code) \/ b \in CrossOf(c.blocks, LiveIn(c))
    BY DEF Full, Rooted, CrossOf
  <1> QED
    BY <1>2, <1>3

(* cache_closeblock: the rest becomes a piece with a free structure. *)
LEMMA CloseBlockFull ==
    ASSUME NEW c, Full(c), NEW written \in 1..CacheMaxSize, Splits(c, written) => c.free # {},
           NEW d, d = CloseBlock(c, written)
    PROVE  Full(d) /\ d.blocks = c.blocks /\ LiveIn(d) = LiveIn(c)
  <1> DEFINE k    == Place(c, c.active)
             size == c.code[k].size
             rest == [block |-> Min(c.free), size |-> size - Rounded(written)]
             piece == [block |-> c.active, size |-> Rounded(written)]
             cut  == IF Splits(c, written)
                     THEN [c EXCEPT !.free = c.free \ {rest.block},
                                    !.code = SubSeq(c.code, 1, k - 1) \o <<piece, rest>>
                                             \o SubSeq(c.code, k + 1, Len(c.code))]
                     ELSE c
             next == k + 1
             full == next > Len(cut.code) \/ SizeOf(cut, 1, k) > CacheTotal - CacheMaxSize
             n == IF full THEN 1 ELSE next
             a == cut.code[n].block
             new == CutIn(c.code, k, piece, rest)
  <1>1. d = [cut EXCEPT !.active = a]
    BY Zenon DEF CloseBlock
  <1>2. c \in Caches /\ c.code \in Seq(PieceRecs) /\ c.active \in Blocks /\ Conserved(c, LiveIn(c))
    <2>1. c \in Caches /\ Conserved(c, LiveIn(c))
      BY DEF Full, Well
    <2> QED
      BY <2>1, CodeFields
  <1>3. k \in 1..Len(c.code) /\ c.code[k].block = c.active
    BY <1>2, PlaceIs
  <1>4. Apart(c.code) /\ Measured(c.code) /\ Parts(PieceBlocks(c.code), CrossOf(c.blocks, LiveIn(c)), c.free)
        /\ \A b \in LiveIn(c) : c.blocks[b].hashed => b \in PieceBlocks(c.code)
    BY DEF Full, Well, Conserved, Rooted
  <1> HIDE DEF k
  <1>5. /\ cut \in Caches /\ cut.blocks = c.blocks /\ cut.write_map = c.write_map /\ cut.used = c.used
        /\ Apart(cut.code) /\ Measured(cut.code) /\ PieceBlocks(c.code) \subseteq PieceBlocks(cut.code)
        /\ Parts(PieceBlocks(cut.code), CrossOf(c.blocks, LiveIn(c)), cut.free)
    <2>1. CASE Splits(c, written)
      <3> DEFINE F == c.free \ {rest.block}
      <3>1. c.free \in SUBSET Blocks /\ c.free # {} /\ c.free \in SUBSET Nat
        BY <2>1, FreeDead, CodeConstants
      <3>2. Min(c.free) \in c.free
        BY <3>1, MinIn
      <3>3. size \in Nat /\ size >= 1 /\ size - written > CacheAlign
        BY <1>2, <1>3, <2>1, PieceFields DEF Splits, k
      <3>4. written \in Nat \ {0} /\ CacheAlign \in Nat
        BY CacheAssumption
      <3> DEFINE r == Rounded(written)
      <3>5. r \in Nat /\ r >= written /\ r < written + CacheAlign
        BY <3>4, RoundedIs
      <3> HIDE DEF r, size
      <3>6. r \in Nat \ {0} /\ size - r \in Nat \ {0} /\ size = r + (size - r)
        BY <3>3, <3>4, <3>5
      <3>7. piece \in PieceRecs /\ rest \in PieceRecs
        BY <1>2, <3>1, <3>2, <3>6 DEF PieceRecs, r
      <3>8. piece.block = c.active /\ rest.block = Min(c.free) /\ size = piece.size + rest.size
        BY <3>6 DEF r
      <3>9. cut = [c EXCEPT !.free = F, !.code = new]
        BY <2>1 DEF CutIn, Instead
      <3> HIDE DEF piece, rest
      <3>10. rest.block \notin PieceBlocks(c.code) /\ rest.block \in c.free
        BY <3>2, <3>8, FreeDead
      <3>11. /\ new \in Seq(PieceRecs) /\ Apart(new) /\ Measured(new)
             /\ PieceBlocks(new) = PieceBlocks(c.code) \cup {rest.block}
        BY <1>2, <1>3, <1>4, <3>7, <3>8, <3>10, CutIs DEF size
      <3> HIDE DEF new
      <3>12. Parts(PieceBlocks(new), CrossOf(c.blocks, LiveIn(c)), F)
        BY <1>4, <3>10, <3>11 DEF Parts
      <3>13. F \in SUBSET Blocks
        BY <3>1
      <3> HIDE DEF F, cut
      <3>14. /\ cut \in Caches /\ cut.blocks = c.blocks /\ cut.write_map = c.write_map /\ cut.used = c.used
             /\ cut.code = new /\ cut.free = F
        BY <1>2, <3>9, <3>11, <3>13 DEF Caches
      <3> HIDE <3>9
      <3> QED
        BY <3>11, <3>12, <3>14
    <2>2. CASE ~Splits(c, written)
      <3>1. cut = c
        BY <2>2
      <3> HIDE DEF cut
      <3> QED
        BY <1>2, <1>4, <3>1
    <2> QED
      BY <2>1, <2>2
  <1> DEFINE C == cut.code
  <1> HIDE DEF cut
  <1>6. C \in Seq(PieceRecs)
    BY <1>5, CodeFields
  <1> HIDE DEF C
  <1>8. n \in 1..Len(C)
    <2>1. Len(C) \in Nat /\ k \in Nat
      BY <1>3, <1>6, LenProperties
    <2>2. PieceBlocks(C) # {}
      BY <1>2, <1>5 DEF Conserved, C
    <2>3. Len(C) >= 1
      BY <2>1, <2>2 DEF PieceBlocks
    <2>4. full \/ next <= Len(C)
      <3>1. ~full => ~(next > Len(C))
        BY DEF C
      <3> HIDE DEF full
      <3> QED
        BY <2>1, <3>1
    <2> HIDE DEF full
    <2> QED
      BY <2>1, <2>3, <2>4
  <1> HIDE DEF n
  <1>9. a \in PieceBlocks(C) /\ a \in Blocks
    <2>1. a = C[n].block
      BY DEF C
    <2> QED
      BY <1>6, <1>8, <2>1, PieceFields DEF PieceBlocks
  <1> HIDE DEF a
  <1>10. /\ d \in Caches /\ d.blocks = c.blocks /\ d.code = C /\ d.active = a /\ d.free = cut.free
         /\ d.write_map = c.write_map /\ d.used = c.used
    BY <1>1, <1>5, <1>9 DEF Caches, C
  <1> HIDE <1>1
  <1>11. Full(d) /\ LiveIn(d) = LiveIn(c)
    <2>1. \A b \in LiveIn(c) : c.blocks[b].hashed => b \in PieceBlocks(d.code)
      BY <1>4, <1>5, <1>10 DEF C
    <2>2. Apart(d.code) /\ Measured(d.code) /\ d.active \in PieceBlocks(d.code)
          /\ Parts(PieceBlocks(d.code), CrossOf(c.blocks, LiveIn(c)), d.free)
      BY <1>5, <1>9, <1>10 DEF C
    <2> QED
      BY <1>10, <2>1, <2>2, PartedAnew
  <1> QED
    BY <1>10, <1>11
-----------------------------------------------------------------------------
(* A translation: a block takes its place in a page.                       *)
NewBlock(p, first, last, hashed, other) ==
    [Unused EXCEPT !.page = p, !.first = first, !.last = last, !.hashed = hashed, !.other = other]

(* The structure of a new block. *)
LEMMA NewBlockIs ==
    ASSUME NEW p \in Pages, NEW first \in Addresses, NEW last \in Addresses, NEW hashed \in BOOLEAN,
           NEW other \in Blocks \cup {None}
    PROVE  LET r == NewBlock(p, first, last, hashed, other)
           IN  /\ r \in BlockRecs /\ r.page = p /\ r.first = first /\ r.last = last /\ r.hashed = hashed
               /\ r.other = other /\ \A i \in LinkIds : r.to[i] = LinkBlock /\ r.from[i] = {}
  <1> DEFINE to == [i \in LinkIds |-> LinkBlock]
             from == [i \in LinkIds |-> {}]
  <1>1. Unused = [page |-> None, first |-> 0, last |-> 0, hashed |-> TRUE, other |-> None, to |-> to, from |-> from]
    BY DEF Unused
  <1>2. to \in [LinkIds -> Blocks \cup {LinkBlock}] /\ from \in [LinkIds -> SUBSET Blocks]
    OBVIOUS
  <1>3. \A i \in LinkIds : to[i] = LinkBlock /\ from[i] = {}
    OBVIOUS
  <1> HIDE DEF to, from
  <1> QED
    BY <1>1, <1>2, <1>3 DEF BlockRecs, NewBlock

(* It is linked to nobody yet. *)
LEMMA NewLinks ==
    ASSUME NEW blks \in BlockMaps, NEW A \in SUBSET Blocks, Linked(blks, A), NEW b \in Blocks \ A, NEW new,
           \A x \in Blocks : x # b => new[x] = blks[x],
           \A i \in LinkIds : new[b].to[i] = LinkBlock /\ new[b].from[i] = {}
    PROVE  Linked(new, A \cup {b})
  <1>1. \A x \in A, i \in LinkIds : blks[x].hashed =>
           /\ blks[x].to[i] # LinkBlock =>
                 blks[x].to[i] \in A /\ blks[blks[x].to[i]].hashed /\ x \in blks[blks[x].to[i]].from[i]
           /\ \A f \in blks[x].from[i] : f \in A /\ blks[f].hashed /\ blks[f].to[i] = x
    BY DEF Linked
  <1>2. \A x \in Blocks, i \in LinkIds : x \notin A \/ ~blks[x].hashed => blks[x].from[i] = {}
    BY DEF Linked
  <1>3. \A x \in A : x \in Blocks /\ x # b /\ new[x] = blks[x]
    OBVIOUS
  <1>4. ASSUME NEW x \in A \cup {b}, NEW i \in LinkIds, new[x].hashed, new[x].to[i] # LinkBlock
        PROVE  new[x].to[i] \in A \cup {b} /\ new[new[x].to[i]].hashed /\ x \in new[new[x].to[i]].from[i]
    <2>1. x # b /\ x \in A
      BY <1>4
    <2> DEFINE t == blks[x].to[i]
    <2>2. new[x].to[i] = t /\ t \in A /\ blks[t].hashed /\ x \in blks[t].from[i]
      BY <1>1, <1>3, <1>4, <2>1
    <2> HIDE DEF t
    <2> QED
      BY <1>3, <2>2
  <1>5. ASSUME NEW x \in A \cup {b}, NEW i \in LinkIds, new[x].hashed, NEW f \in new[x].from[i]
        PROVE  f \in A \cup {b} /\ new[f].hashed /\ new[f].to[i] = x
    <2>1. x # b /\ x \in A
      BY <1>5
    <2>2. f \in A /\ blks[f].hashed /\ blks[f].to[i] = x
      BY <1>1, <1>3, <1>5, <2>1
    <2> QED
      BY <1>3, <2>2
  <1>6. ASSUME NEW x \in Blocks, NEW i \in LinkIds, x \notin A \cup {b} \/ ~new[x].hashed
        PROVE  new[x].from[i] = {}
    BY <1>2, <1>6
  <1> QED
    BY <1>4, <1>5, <1>6 DEF Linked

NewMap(c, p, first, last) ==
    [c.write_map EXCEPT ![p] = [a \in Addresses |-> IF a \in first..last THEN @[a] + 1 ELSE @[a]]]

(* A block more is counted over each of its bytes. *)
LEMMA NewCounts ==
    ASSUME NEW c \in Caches, Counted(c, Pages), NEW b \in Blocks, c.blocks[b].page = None, NEW p \in Pages,
           NEW first \in Addresses, NEW last \in Addresses,
           NEW d, d.write_map = NewMap(c, p, first, last),
           \A x \in Blocks : x # b => d.blocks[x] = c.blocks[x],
           d.blocks[b].page = p, d.blocks[b].first = first, d.blocks[b].last = last
    PROVE  Counted(d, Pages) /\ d.write_map \in [Pages -> [Addresses -> Nat]]
  <1> DEFINE row == [a \in Addresses |-> IF a \in first..last THEN c.write_map[p][a] + 1 ELSE c.write_map[p][a]]
  <1>1. c.write_map \in [Pages -> [Addresses -> Nat]]
    BY CodeFields
  <1>2. d.write_map = [c.write_map EXCEPT ![p] = row]
    BY DEF NewMap
  <1>3. row \in [Addresses -> Nat] /\ \A a \in Addresses :
           row[a] = IF a \in first..last THEN c.write_map[p][a] + 1 ELSE c.write_map[p][a]
    BY <1>1
  <1> HIDE DEF row
  <1>4. d.write_map \in [Pages -> [Addresses -> Nat]]
    BY <1>1, <1>2, <1>3
  <1>5. d.write_map[p] = row /\ \A q \in Pages : q # p => d.write_map[q] = c.write_map[q]
    BY <1>1, <1>2
  <1>6. ASSUME NEW q \in Pages, NEW a \in Addresses
        PROVE  d.write_map[q][a] = Cardinality(Over(d.blocks, q, a))
    <2> DEFINE old == Over(c.blocks, q, a)
               new == Over(d.blocks, q, a)
    <2>1. c.write_map[q][a] = Cardinality(old)
      BY DEF Counted
    <2>2. b \notin old
      BY CodeConstants DEF Over
    <2>3. IsFiniteSet(old) /\ Cardinality(old) \in Nat
      BY OverFinite
    <2>4. CASE q = p /\ a \in first..last
      <3>1. a <= last /\ a >= first
        BY <2>4
      <3>2. new = old \cup {b}
        BY <2>4, <3>1 DEF Over
      <3> HIDE DEF old, new
      <3>3. Cardinality(new) = Cardinality(old) + 1
        BY <2>2, <2>3, <3>2, FS_AddElement
      <3> QED
        BY <1>3, <1>5, <2>1, <2>4, <3>3 DEF new
    <2>5. CASE q = p /\ a \notin first..last
      <3>1. ~(a <= last /\ a >= first)
        BY <2>5, CodeConstants
      <3>2. new = old
        BY <2>2, <2>5, <3>1 DEF Over
      <3> QED
        BY <1>3, <1>5, <2>1, <2>5, <3>2
    <2>6. CASE q # p
      <3>1. new = old
        BY <2>2, <2>6 DEF Over
      <3> QED
        BY <1>5, <2>1, <2>6, <3>1
    <2> QED
      BY <2>4, <2>5, <2>6
  <1> QED
    BY <1>4, <1>6 DEF Counted

(* A cache whose pairs and pieces may still be unsettled. *)
Loose(c, A) ==
    /\ c \in Caches /\ A \in SUBSET Blocks /\ Linked(c.blocks, A) /\ Stretches(c.blocks)
    /\ Counted(c, Pages) /\ Handled(c)

Added(c, d, b, p, hashed, other) ==
    /\ d.code = c.code /\ d.active = c.active /\ d.free = c.free /\ d.used = c.used
    /\ \A x \in Blocks : x # b => d.blocks[x] = c.blocks[x]
    /\ d.blocks[b].page = p /\ d.blocks[b].hashed = hashed /\ d.blocks[b].other = other

(* AddBlock: one block more, linked to nobody, and counted. *)
LEMMA AddBlockIs ==
    ASSUME NEW c, NEW A, Loose(c, A), NEW b \in Blocks \ A, c.blocks[b].page = None,
           NEW p \in Pages, HasHandler(c, p), NEW first \in Addresses, NEW last \in Addresses, first <= last,
           NEW hashed \in BOOLEAN, NEW other \in Blocks \cup {None},
           NEW d, d = AddBlock(c, b, p, first, last, hashed, other)
    PROVE  Loose(d, A \cup {b}) /\ Added(c, d, b, p, hashed, other)
  <1> DEFINE r == NewBlock(p, first, last, hashed, other)
             new == Changed(c.blocks, b, r)
             map == NewMap(c, p, first, last)
  <1>1. d = [c EXCEPT !.blocks = new, !.write_map = map]
    BY DEF AddBlock, NewBlock, NewMap
  <1>2. /\ r \in BlockRecs /\ r.page = p /\ r.first = first /\ r.last = last /\ r.hashed = hashed
        /\ r.other = other /\ \A i \in LinkIds : r.to[i] = LinkBlock /\ r.from[i] = {}
    BY NewBlockIs
  <1>0. /\ c \in Caches /\ A \in SUBSET Blocks /\ Linked(c.blocks, A) /\ Stretches(c.blocks)
        /\ Counted(c, Pages) /\ Handled(c)
    BY DEF Loose
  <1>3. c.blocks \in BlockMaps
    BY <1>0, CodeFields
  <1> HIDE DEF r
  <1>4. new \in BlockMaps /\ \A x \in Blocks : new[x] = IF x = b THEN r ELSE c.blocks[x]
    BY <1>2, <1>3, ChangedIs
  <1> HIDE DEF new
  <1>5. /\ d.blocks = new /\ d.write_map = map /\ d.code = c.code /\ d.active = c.active
        /\ d.free = c.free /\ d.used = c.used
    <2> HIDE DEF map
    <2> QED
      BY <1>0, <1>1 DEF Caches
  <1>6. new[b] = r /\ \A x \in Blocks : x # b => new[x] = c.blocks[x]
    BY <1>4
  <1>7. Counted(d, Pages) /\ map \in [Pages -> [Addresses -> Nat]]
    <2>1. \A x \in Blocks : x # b => d.blocks[x] = c.blocks[x]
      BY <1>5, <1>6
    <2>2. d.blocks[b].page = p /\ d.blocks[b].first = first /\ d.blocks[b].last = last
      BY <1>2, <1>5, <1>6
    <2>3. d.write_map = map
      BY <1>5
    <2> HIDE <1>1
    <2>4. Counted(d, Pages) /\ d.write_map \in [Pages -> [Addresses -> Nat]]
      BY <1>0, <2>1, <2>2, <2>3, NewCounts
    <2> QED
      BY <2>3, <2>4
  <1> HIDE DEF map
  <1>8. d \in Caches
    BY <1>0, <1>1, <1>4, <1>7 DEF Caches
  <1> HIDE <1>1
  <1>9. Linked(d.blocks, A \cup {b})
    <2>1. \A x \in Blocks : x # b => d.blocks[x] = c.blocks[x]
      BY <1>5, <1>6
    <2>2. \A i \in LinkIds : d.blocks[b].to[i] = LinkBlock /\ d.blocks[b].from[i] = {}
      BY <1>2, <1>5, <1>6
    <2> QED
      BY <1>0, <1>3, <2>1, <2>2, NewLinks
  <1>10. Stretches(d.blocks)
    BY <1>0, <1>2, <1>5, <1>6 DEF Stretches
  <1>11. Handled(d)
    BY <1>0, <1>2, <1>5, <1>6 DEF Handled, HasHandler
  <1> QED
    <2>1. Loose(d, A \cup {b})
      BY <1>0, <1>7, <1>8, <1>9, <1>10, <1>11 DEF Loose
    <2>2. Added(c, d, b, p, hashed, other)
      BY <1>2, <1>5, <1>6 DEF Added
    <2> QED
      BY <2>1, <2>2

(* With new blocks a cache is in order when those are. *)
Joining(c, d, N) ==
    /\ N \in SUBSET Blocks /\ LiveIn(d) = LiveIn(c) \cup N /\ N \cap LiveIn(c) = {}
    /\ d.code = c.code /\ d.active = c.active /\ d.used = c.used
    /\ \A x \in Blocks \ N : d.blocks[x] = c.blocks[x]
    /\ \A x \in N : d.blocks[x].hashed => x \in PieceBlocks(c.code)
    /\ \A x \in N : d.blocks[x].other # None =>
           /\ d.blocks[x].other \in N /\ d.blocks[d.blocks[x].other].other = x
           /\ d.blocks[d.blocks[x].other].hashed # d.blocks[x].hashed
           /\ d.blocks[d.blocks[x].other].page # d.blocks[x].page

(* With the new blocks N, paired among themselves, the cache is whole again. *)
LEMMA Joins ==
    ASSUME NEW c, Full(c), NEW d, NEW N, Loose(d, LiveIn(d)), Joining(c, d, N),
           Parts(PieceBlocks(c.code), CrossOf(d.blocks, LiveIn(d)), d.free)
    PROVE  Full(d)
  <1>1. /\ Paired(c.blocks, LiveIn(c)) /\ Conserved(c, LiveIn(c)) /\ LiveIn(c) \in SUBSET Blocks
        /\ Once(c.used) /\ Len(c.used) <= CachePages /\ Measured(c.code) /\ Rooted(c)
    BY DEF Full, Well
  <1>2. \A x \in LiveIn(c) : x \in Blocks \ N /\ d.blocks[x] = c.blocks[x]
    BY <1>1 DEF Joining
  <1>3. Paired(d.blocks, LiveIn(d))
    <2>1. ASSUME NEW x \in LiveIn(d), d.blocks[x].other # None
          PROVE  /\ d.blocks[x].other \in LiveIn(d) /\ d.blocks[d.blocks[x].other].other = x
                 /\ d.blocks[d.blocks[x].other].hashed # d.blocks[x].hashed
                 /\ d.blocks[d.blocks[x].other].page # d.blocks[x].page
      <3>1. CASE x \in N
        BY <2>1, <3>1 DEF Joining
      <3>2. CASE x \in LiveIn(c)
        <4> DEFINE o == c.blocks[x].other
        <4>1. d.blocks[x] = c.blocks[x] /\ d.blocks[x].other = o
          BY <1>2, <3>2
        <4>2. o \in LiveIn(c) /\ c.blocks[o].other = x /\ c.blocks[o].hashed # c.blocks[x].hashed
              /\ c.blocks[o].page # c.blocks[x].page
          BY <1>1, <2>1, <3>2, <4>1 DEF Paired
        <4>4. \A y \in LiveIn(c) : y \in LiveIn(d)
          BY DEF Joining
        <4> HIDE DEF o
        <4>3. d.blocks[o] = c.blocks[o]
          BY <1>2, <4>2
        <4> QED
          BY <4>1, <4>2, <4>3, <4>4
      <3> QED
        BY <3>1, <3>2 DEF Joining
    <2>2. ASSUME NEW x \in Blocks \ LiveIn(d) PROVE d.blocks[x].other = None /\ d.blocks[x].page = None
      <3>1. x \in Blocks \ N /\ x \in Blocks \ LiveIn(c) /\ d.blocks[x] = c.blocks[x]
        BY DEF Joining
      <3>2. c.blocks[x].other = None /\ c.blocks[x].page = None
        BY <1>1, <3>1 DEF Paired
      <3> QED
        BY <3>1, <3>2
    <2> QED
      BY <2>1, <2>2 DEF Paired
  <1>4. Conserved(d, LiveIn(d))
    BY <1>1 DEF Conserved, Joining
  <1>5. Rooted(d)
    BY <1>1, <1>2 DEF Rooted, Joining
  <1>6. LiveIn(d) \in SUBSET Blocks
    BY DEF LiveIn
  <1>7. Well(d, LiveIn(d), Pages)
    BY <1>3, <1>4, <1>6 DEF Well, Loose
  <1> QED
    BY <1>1, <1>5, <1>7 DEF Full, Joining

(* A translation within a page. *)
LEMMA TranslateInFull ==
    ASSUME NEW c, Full(c), NEW p \in Pages, HasHandler(c, p), c.active \notin LiveIn(c),
           NEW first \in Addresses, NEW last \in Addresses, first <= last,
           NEW d, d = TranslateIn(c, p, first, last)
    PROVE  /\ Full(d) /\ d.code = c.code /\ d.active = c.active /\ d.free = c.free
           /\ c.active \in LiveIn(d) /\ d.blocks[c.active].hashed
  <1> DEFINE a == c.active
             A == LiveIn(c)
  <1>1. /\ c \in Caches /\ A \in SUBSET Blocks /\ Linked(c.blocks, A) /\ Stretches(c.blocks)
        /\ Conserved(c, A) /\ Counted(c, Pages) /\ Handled(c)
    BY DEF Full, Well
  <1>2. a \in Blocks \ A /\ c.blocks[a].page = None
    <2>1. a \in Blocks
      BY <1>1, CodeFields
    <2> QED
      BY <2>1 DEF LiveIn
  <1> DEFINE h == TRUE
  <1>3. None \in Blocks \cup {None} /\ h \in BOOLEAN /\ d = AddBlock(c, a, p, first, last, h, None)
    BY DEF TranslateIn
  <1>10. Loose(c, A)
    BY <1>1 DEF Loose
  <1> HIDE DEF a, A, h
  <1>11. Loose(d, A \cup {a}) /\ Added(c, d, a, p, h, None)
    BY <1>2, <1>3, <1>10, AddBlockIs
  <1> HIDE <1>3
  <1>4. /\ d.code = c.code /\ d.active = c.active /\ d.free = c.free /\ d.used = c.used
        /\ \A x \in Blocks : x # a => d.blocks[x] = c.blocks[x]
        /\ d.blocks[a].page = p /\ d.blocks[a].hashed = TRUE /\ d.blocks[a].other = None
    BY <1>11 DEF Added, h
  <1>5. LiveIn(d) = A \cup {a}
    <2>1. \A b \in Blocks : b \in A <=> c.blocks[b].page # None
      BY DEF A, LiveIn
    <2>2. \A b \in Blocks : d.blocks[b].page # None <=> b \in A \cup {a}
      BY <1>2, <1>4, <2>1, CodeConstants
    <2>3. A \cup {a} \in SUBSET Blocks
      BY <1>1, <1>2
    <2> QED
      BY <2>2, <2>3 DEF LiveIn
  <1>6. a \in PieceBlocks(c.code)
    BY <1>1 DEF Conserved, a
  <1>7. CrossOf(d.blocks, LiveIn(d)) = CrossOf(c.blocks, A)
    BY <1>1, <1>2, <1>4, <1>5 DEF CrossOf
  <1>8. Parts(PieceBlocks(c.code), CrossOf(d.blocks, LiveIn(d)), d.free)
    BY <1>1, <1>4, <1>7 DEF Conserved
  <1>9. Full(d)
    <2> DEFINE N == {a}
    <2>1. N \in SUBSET Blocks /\ N \cap A = {} /\ LiveIn(d) = A \cup N
      BY <1>2, <1>5
    <2>2. \A x \in Blocks \ N : d.blocks[x] = c.blocks[x]
      BY <1>4
    <2>3. \A x \in N : x \in PieceBlocks(c.code) /\ d.blocks[x].other = None
      BY <1>4, <1>6
    <2>4. Loose(d, LiveIn(d))
      BY <1>5, <1>11
    <2> HIDE DEF N
    <2>5. Joining(c, d, N)
      BY <1>4, <2>1, <2>2, <2>3 DEF Joining, A
    <2> QED
      BY <1>8, <2>4, <2>5, Joins
  <1> QED
    BY <1>4, <1>5, <1>9 DEF a, A

(* A translation over the end of a page, with its cross block. *)
LEMMA TranslateOverFull ==
    ASSUME NEW c, Full(c), NEW p \in Pages, HasHandler(c, p), c.active \notin LiveIn(c),
           NEW first \in Addresses, NEW q \in Pages \ {p}, NEW end \in Addresses, c.free # {},
           NEW d, d = TranslateOver(c, p, first, q, end)
    PROVE  /\ Full(d) /\ d.code = c.code /\ d.active = c.active
           /\ c.active \in LiveIn(d) /\ d.blocks[c.active].hashed
           /\ \E x : c.free \ {x} \subseteq d.free
  <1> DEFINE h == TRUE
             g == FALSE
             next == MakeCodePage(c, q, p)
             cross == Min(next.free)
             F == next.free \ {cross}
             taken == [next EXCEPT !.free = F]
             a == c.active
             mid == AddBlock(taken, a, p, first, PageEnd, h, cross)
             A == LiveIn(next)
  <1>1. d = AddBlock(mid, cross, q, 0, end, g, a)
    BY DEF TranslateOver
  <1>2. Full(next) /\ Kept(c, next) /\ HasHandler(next, q) /\ HasHandler(next, p)
    BY MakeCodePageFull
  <1> HIDE DEF next
  <1>3. next.code = c.code /\ next.active = a /\ c.free \subseteq next.free /\ A \subseteq LiveIn(c)
    BY <1>2 DEF Kept
  <1>23. h \in BOOLEAN /\ g \in BOOLEAN /\ h /\ ~g
    OBVIOUS
  <1>4. /\ next \in Caches /\ A \in SUBSET Blocks /\ Linked(next.blocks, A) /\ Stretches(next.blocks)
        /\ Conserved(next, A) /\ Counted(next, Pages) /\ Handled(next)
    BY <1>2 DEF Full, Well
  <1>5. next.free \in SUBSET Blocks /\ next.free # {} /\ next.free \in SUBSET Nat
        /\ next.free \cap A = {} /\ next.free \cap PieceBlocks(next.code) = {}
    BY <1>2, <1>3, FreeDead, CodeConstants
  <1>6. cross \in next.free
    BY <1>5, MinIn
  <1> HIDE DEF cross
  <1>7. a \in PieceBlocks(next.code) /\ a \in Blocks /\ a \notin A
    <2>1. a \in Blocks
      BY <1>3, <1>4, CodeFields
    <2> QED
      BY <1>3, <1>4, <2>1 DEF Conserved
  <1>8. cross \in Blocks \ A /\ cross # a /\ cross \notin PieceBlocks(next.code)
    BY <1>5, <1>6, <1>7
  <1>9. next.blocks[a].page = None /\ next.blocks[cross].page = None
    BY <1>7, <1>8 DEF LiveIn
  <1> HIDE DEF A, a, F, h, g
  <1>10. /\ taken \in Caches /\ taken.blocks = next.blocks /\ taken.code = next.code /\ taken.active = a
         /\ taken.free = F /\ taken.write_map = next.write_map /\ taken.used = next.used
    <2>1. F \in SUBSET Blocks
      BY <1>5 DEF F
    <2> QED
      BY <1>3, <1>4, <2>1, WithFree
  <1> HIDE DEF taken
  <1>11. Loose(taken, A) /\ HasHandler(taken, p) /\ HasHandler(taken, q)
    BY <1>2, <1>4, <1>10 DEF Loose, Counted, Handled, HasHandler
  <1>12. PageEnd \in Addresses /\ first <= PageEnd /\ 0 \in Addresses /\ 0 <= end
    BY CodeConstants DEF Addresses
  <1>13. Loose(mid, A \cup {a}) /\ Added(taken, mid, a, p, h, cross)
    <2>1. a \in Blocks \ A /\ taken.blocks[a].page = None /\ cross \in Blocks \cup {None} /\ h \in BOOLEAN
      BY <1>7, <1>8, <1>9, <1>10, <1>23
    <2> QED
      BY <1>11, <1>12, <2>1, AddBlockIs
  <1> HIDE DEF mid
  <1>24. /\ mid.code = taken.code /\ mid.active = taken.active /\ mid.free = taken.free /\ mid.used = taken.used
         /\ \A x \in Blocks : x # a => mid.blocks[x] = taken.blocks[x]
         /\ mid.blocks[a].page = p /\ mid.blocks[a].hashed = h /\ mid.blocks[a].other = cross
    BY <1>13 DEF Added
  <1>14. Loose(d, (A \cup {a}) \cup {cross}) /\ Added(mid, d, cross, q, g, a)
    <2>1. cross \in Blocks \ (A \cup {a}) /\ a \in Blocks \cup {None} /\ g \in BOOLEAN
      BY <1>7, <1>8, <1>23
    <2>2. mid.blocks[cross].page = None
      BY <1>8, <1>9, <1>10, <1>24
    <2>3. HasHandler(mid, q)
      BY <1>11, <1>24 DEF HasHandler
    <2> QED
      BY <1>1, <1>12, <1>13, <2>1, <2>2, <2>3, AddBlockIs
  <1> HIDE <1>1
  <1>25. /\ d.code = mid.code /\ d.active = mid.active /\ d.free = mid.free /\ d.used = mid.used
         /\ \A x \in Blocks : x # cross => d.blocks[x] = mid.blocks[x]
         /\ d.blocks[cross].page = q /\ d.blocks[cross].hashed = g /\ d.blocks[cross].other = a
    BY <1>14 DEF Added
  <1> DEFINE N == {a, cross}
  <1>15. /\ \A x \in Blocks \ N : d.blocks[x] = next.blocks[x]
         /\ d.blocks[a].page = p /\ d.blocks[a].hashed = h /\ d.blocks[a].other = cross
    BY <1>7, <1>8, <1>10, <1>24, <1>25
  <1>16. LiveIn(d) = A \cup N
    <2>1. d.blocks[a].page # None /\ d.blocks[cross].page # None
      BY <1>15, <1>25, CodeConstants
    <2>2. \A b \in Blocks : b \in A <=> next.blocks[b].page # None
      BY DEF A, LiveIn
    <2>3. \A b \in Blocks : d.blocks[b].page # None <=> b \in A \cup N
      BY <1>7, <1>8, <1>15, <2>1, <2>2
    <2>4. A \cup N \in SUBSET Blocks
      BY <1>4, <1>7, <1>8
    <2> HIDE DEF N
    <2> QED
      BY <2>3, <2>4 DEF LiveIn
  <1>17. CrossOf(d.blocks, LiveIn(d)) = CrossOf(next.blocks, A) \cup {cross}
    <2>1. \A x \in A : x # a /\ x # cross /\ d.blocks[x] = next.blocks[x]
      BY <1>4, <1>7, <1>8, <1>15
    <2>2. d.blocks[a].hashed
      BY <1>15, <1>23
    <2>3. ~d.blocks[cross].hashed
      BY <1>23, <1>25
    <2> DEFINE L == LiveIn(d)
    <2>4. \A x : x \in L <=> x \in A \/ x = a \/ x = cross
      BY <1>16
    <2> HIDE DEF L, N
    <2>5. \A x : x \in CrossOf(d.blocks, L) <=> x \in L /\ ~d.blocks[x].hashed
      BY Zenon DEF CrossOf
    <2>6. \A x : x \in CrossOf(next.blocks, A) <=> x \in A /\ ~next.blocks[x].hashed
      BY Zenon DEF CrossOf
    <2>7. ASSUME NEW x, x \in CrossOf(d.blocks, L)
          PROVE  x \in CrossOf(next.blocks, A) \cup {cross}
      <3>1. x \in L /\ ~d.blocks[x].hashed
        BY <2>5, <2>7
      <3>2. x # a
        BY <2>2, <3>1
      <3>3. x \in A => ~next.blocks[x].hashed
        BY <2>1, <3>1
      <3> QED
        BY <2>4, <2>6, <3>1, <3>2, <3>3
    <2>8. ASSUME NEW x, x \in CrossOf(next.blocks, A)
          PROVE  x \in CrossOf(d.blocks, L)
      <3>1. x \in A /\ ~next.blocks[x].hashed
        BY <2>6, <2>8
      <3>2. ~d.blocks[x].hashed
        BY <2>1, <3>1
      <3> QED
        BY <2>4, <2>5, <3>1, <3>2
    <2>9. cross \in CrossOf(d.blocks, L)
      BY <2>3, <2>4, <2>5
    <2>10. CrossOf(d.blocks, L) = CrossOf(next.blocks, A) \cup {cross}
      BY <2>7, <2>8, <2>9
    <2> QED
      BY <2>10 DEF L
  <1>18. Parts(PieceBlocks(next.code), CrossOf(d.blocks, LiveIn(d)), d.free)
    <2>1. Parts(PieceBlocks(next.code), CrossOf(next.blocks, A), next.free)
      BY <1>4 DEF Conserved
    <2>2. d.free = next.free \ {cross}
      BY <1>10, <1>24, <1>25 DEF F
    <2> QED
      BY <1>6, <1>17, <2>1, <2>2 DEF Parts
  <1>19. Full(d)
    <2>1. N \in SUBSET Blocks /\ N \cap A = {} /\ Loose(d, LiveIn(d))
      <3>1. (A \cup {a}) \cup {cross} = A \cup N
        OBVIOUS
      <3> QED
        BY <1>7, <1>8, <1>14, <1>16, <3>1
    <2>2. \A x \in N : d.blocks[x].hashed => x \in PieceBlocks(next.code)
      BY <1>7, <1>23, <1>25
    <2>3. \A x \in N : d.blocks[x].other # None =>
               /\ d.blocks[x].other \in N /\ d.blocks[d.blocks[x].other].other = x
               /\ d.blocks[d.blocks[x].other].hashed # d.blocks[x].hashed
               /\ d.blocks[d.blocks[x].other].page # d.blocks[x].page
      <3>1. d.blocks[a].other = cross /\ d.blocks[cross].other = a
        BY <1>15, <1>25
      <3>2. d.blocks[cross].page # d.blocks[a].page
        <4>1. q # p
          OBVIOUS
        <4> QED
          BY <1>15, <1>25, <4>1
      <3>3. d.blocks[cross].hashed # d.blocks[a].hashed
        BY Zenon, <1>15, <1>23, <1>25
      <3>4. a \in N /\ cross \in N
        OBVIOUS
      <3> HIDE DEF N
      <3>5. ASSUME NEW x \in N
            PROVE  /\ d.blocks[x].other \in N /\ d.blocks[d.blocks[x].other].other = x
                   /\ d.blocks[d.blocks[x].other].hashed # d.blocks[x].hashed
                   /\ d.blocks[d.blocks[x].other].page # d.blocks[x].page
        <4>1. x = a \/ x = cross
          BY DEF N
        <4>2. CASE x = a
          BY Zenon, <3>1, <3>2, <3>3, <3>4, <4>2
        <4>3. CASE x = cross
          BY Zenon, <3>1, <3>2, <3>3, <3>4, <4>3
        <4> QED
          BY <4>1, <4>2, <4>3
      <3> QED
        BY <3>5
    <2>4. d.code = next.code /\ d.active = next.active /\ d.used = next.used
      BY <1>3, <1>10, <1>24, <1>25 DEF a
    <2> HIDE DEF N
    <2>5. Joining(next, d, N)
      BY <1>15, <1>16, <2>1, <2>2, <2>3, <2>4 DEF Joining, A
    <2>6. Parts(PieceBlocks(next.code), CrossOf(d.blocks, LiveIn(d)), d.free)
      BY <1>18
    <2> QED
      BY <1>2, <2>1, <2>5, <2>6, Joins
  <1>20. c.free \ {cross} \subseteq d.free
    BY <1>3, <1>10, <1>24, <1>25 DEF F
  <1>21. d.code = c.code /\ d.active = c.active
    BY <1>3, <1>10, <1>24, <1>25 DEF a
  <1>22. c.active \in LiveIn(d) /\ d.blocks[c.active].hashed
    BY <1>15, <1>16, <1>23 DEF a
  <1> QED
    BY <1>19, <1>20, <1>21, <1>22
-----------------------------------------------------------------------------
(* The whole of a cache between two steps, and who runs: what is stale     *)
(* stands for nothing, and what runs can be found, but for a block that    *)
(* was cleared under itself.                                               *)
CodeInv ==
    /\ Full(Cache)
    /\ initialized \in BOOLEAN /\ unnoticed \in BOOLEAN
    /\ stale \in SUBSET Blocks /\ stale \cap LiveIn(Cache) = {}
    /\ current \in Blocks \cup {None}
    /\ current # None /\ ~unnoticed => current \in LiveIn(Cache) /\ blocks[current].hashed

(* The empty cache is whole, and nothing in it is alive. *)
LEMMA EmptyFull == Full(EmptyCache) /\ LiveIn(EmptyCache) = {}
  <1> DEFINE c == EmptyCache
             b == Min(Blocks)
             unused == Unused
             piece == [block |-> b, size |-> CacheTotal]
  <1>1. b \in Blocks
    BY MinIn, CacheAssumption
  <1>2. CacheTotal \in Nat \ {0} /\ ReleaseDelay \in 1..ReleaseDelay /\ 0 \in Addresses /\ CachePages \in Nat
    BY CacheAssumption DEF Addresses
  <1>3. /\ c = [blocks |-> [x \in Blocks |-> unused], code |-> <<piece>>, active |-> b, free |-> Blocks \ {b},
                write_map |-> [p \in Pages |-> [a \in Addresses |-> 0]], used |-> <<>>,
                active_count |-> [p \in Pages |-> ReleaseDelay]]
    BY Zenon DEF EmptyCache
  <1>4. /\ unused \in BlockRecs /\ unused.page = None /\ unused.other = None /\ unused.first = 0 /\ unused.last = 0
        /\ unused.hashed = TRUE /\ \A i \in LinkIds : unused.from[i] = {}
    BY <1>2 DEF Unused, BlockRecs
  <1> HIDE DEF b, unused
  <1>5. piece \in PieceRecs /\ piece.block = b /\ piece.size = CacheTotal
    BY <1>1, <1>2 DEF PieceRecs
  <1> HIDE DEF piece, c
  <1>6. /\ c.blocks = [x \in Blocks |-> unused] /\ c.code = <<piece>> /\ c.active = b /\ c.free = Blocks \ {b}
        /\ c.write_map = [p \in Pages |-> [a \in Addresses |-> 0]] /\ c.used = <<>>
        /\ c.active_count = [p \in Pages |-> ReleaseDelay]
    BY <1>3
  <1>7. c.blocks \in BlockMaps /\ \A x \in Blocks : c.blocks[x] = unused
    BY <1>4, <1>6 DEF BlockMaps
  <1>8. c.code \in Seq(PieceRecs) /\ Len(c.code) = 1 /\ c.code[1] = piece
    BY <1>5, <1>6
  <1>9. c.used \in Seq(Pages) /\ Len(c.used) = 0
    BY <1>6
  <1>10. /\ c.write_map \in [Pages -> [Addresses -> Nat]]
         /\ \A p \in Pages, a \in Addresses : c.write_map[p][a] = 0
    BY <1>6
  <1>11. c.active_count \in [Pages -> 1..ReleaseDelay] /\ c.active \in Blocks /\ c.free \in SUBSET Blocks
    BY <1>1, <1>2, <1>6
  <1>12. c \in Caches
    <2> DEFINE bl == c.blocks
               co == c.code
               ac == c.active
               fr == c.free
               wm == c.write_map
               us == c.used
               cn == c.active_count
    <2>1. c = [blocks |-> bl, code |-> co, active |-> ac, free |-> fr, write_map |-> wm, used |-> us,
               active_count |-> cn]
      BY <1>3
    <2>2. /\ bl \in BlockMaps /\ co \in Seq(PieceRecs) /\ ac \in Blocks /\ fr \in SUBSET Blocks
          /\ wm \in [Pages -> [Addresses -> Nat]] /\ us \in Seq(Pages) /\ cn \in [Pages -> 1..ReleaseDelay]
      BY <1>7, <1>8, <1>9, <1>10, <1>11
    <2> HIDE DEF bl, co, ac, fr, wm, us, cn
    <2> QED
      BY <2>1, <2>2 DEF Caches
  <1>13. LiveIn(c) = {}
    BY <1>4, <1>7 DEF LiveIn
  <1>14. PieceBlocks(c.code) = {b} /\ Apart(c.code)
    BY <1>5, <1>8 DEF PieceBlocks, Apart
  <1>15. Conserved(c, {})
    <2>1. CrossOf(c.blocks, {}) = {}
      BY DEF CrossOf
    <2> QED
      BY <1>1, <1>6, <1>14, <2>1 DEF Conserved, Parts
  <1>16. Linked(c.blocks, {})
    BY <1>4, <1>7 DEF Linked
  <1>17. Paired(c.blocks, {}) /\ Stretches(c.blocks)
    BY <1>4, <1>7 DEF Paired, Stretches
  <1>18. Counted(c, Pages)
    <2>1. \A p \in Pages, a \in Addresses : Over(c.blocks, p, a) = {}
      BY <1>4, <1>7, CodeConstants DEF Over
    <2> QED
      BY <1>10, <2>1, FS_EmptySet DEF Counted
  <1>19. Handled(c) /\ Once(c.used)
    BY <1>4, <1>7, <1>9 DEF Handled, Once
  <1>20. Measured(c.code)
    <2> DEFINE S == [k \in 0..1 |-> IF k = 0 THEN 0 ELSE CacheTotal]
    <2>1. S \in [0..1 -> Nat] /\ S[0] = 0 /\ S[1] = CacheTotal
      BY <1>2
    <2> HIDE DEF S
    <2>2. \A k \in 1..1 : S[k] = S[k - 1] + c.code[k].size
      <3>1. S[1] = S[0] + c.code[1].size
        BY <1>2, <1>5, <1>8, <2>1
      <3> QED
        BY <3>1
    <2> QED
      BY <1>8, <2>1, <2>2 DEF Sums, Measured
  <1>21. Rooted(c)
    BY <1>13 DEF Rooted
  <1> QED
    BY <1>2, <1>9, <1>12, <1>13, <1>15, <1>16, <1>17, <1>18, <1>19, <1>20, <1>21 DEF Full, Well, c

(* The fields of the cache are the variables. *)
LEMMA CacheFields ==
    /\ Cache.blocks = blocks /\ Cache.code = code /\ Cache.active = active /\ Cache.free = free
    /\ Cache.write_map = write_map /\ Cache.used = used /\ Cache.active_count = active_count
  BY DEF Cache

(* The invariant holds at first. *)
LEMMA CodeInitInv == CodeInit => CodeInv
  <1> SUFFICES ASSUME CodeInit PROVE CodeInv
    OBVIOUS
  <1>1. Cache = EmptyCache
    BY DEF CodeInit, Cache, EmptyCache
  <1>2. Full(Cache)
    BY <1>1, EmptyFull
  <1> QED
    BY <1>2 DEF CodeInit, CodeInv

(* A step that leaves the cache alone. *)
LEMMA CacheAlone == ASSUME UNCHANGED cacheVars PROVE Cache' = Cache /\ blocks' = blocks /\ active' = active
  BY DEF cacheVars, Cache

(* RunBlock keeps it. *)
LEMMA RunBlockInv == ASSUME CodeInv, NEW b \in Blocks, RunBlock(b) PROVE CodeInv'
  <1>1. Cache' = Cache /\ blocks' = blocks /\ initialized' = initialized /\ stale' = stale /\ unnoticed' = unnoticed
    BY CacheAlone DEF RunBlock
  <1>2. current' = b /\ b \in LiveIn(Cache) /\ blocks[b].hashed
    BY CacheFields DEF RunBlock, IsLive, LiveIn
  <1> QED
    BY <1>1, <1>2 DEF CodeInv

(* What runs, and is not left, can be found. *)
LEMMA RunningIs ==
    ASSUME CodeInv, Goes, current # None
    PROVE  current \in LiveIn(Cache) /\ blocks[current].hashed /\ current \in Blocks
  BY DEF CodeInv, Goes, LiveIn

(* Follow keeps it: a link leads to a block that can be found. *)
LEMMA FollowInv == ASSUME CodeInv, NEW i \in LinkIds, Follow(i) PROVE CodeInv'
  <1>1. Cache' = Cache /\ blocks' = blocks /\ initialized' = initialized /\ stale' = stale /\ unnoticed' = unnoticed
    BY CacheAlone DEF Follow
  <1>2. current \in LiveIn(Cache) /\ blocks[current].hashed
    BY RunningIs DEF Follow
  <1>3. Linked(blocks, LiveIn(Cache))
    BY CacheFields DEF CodeInv, Full, Well
  <1>4. current' \in LiveIn(Cache) /\ blocks[current'].hashed
    BY <1>2, <1>3 DEF Follow, Linked
  <1>5. current' \in Blocks
    BY <1>4 DEF LiveIn
  <1> QED
    BY <1>1, <1>4, <1>5 DEF CodeInv

(* LeaveBlock keeps it. *)
LEMMA LeaveBlockInv == ASSUME CodeInv, LeaveBlock PROVE CodeInv'
  <1>1. /\ Cache' = Cache /\ blocks' = blocks /\ initialized' = initialized /\ stale' = stale /\ unnoticed' = unnoticed
        /\ current' = None
    BY CacheAlone DEF LeaveBlock
  <1> QED
    BY <1>1 DEF CodeInv

(* CacheInit keeps it. *)
LEMMA CacheInitInv == ASSUME CodeInv, CacheInit PROVE CodeInv'
  <1>1. /\ Cache' = Cache /\ blocks' = blocks /\ initialized' = TRUE /\ stale' = stale /\ unnoticed' = unnoticed
        /\ current' = current
    BY CacheAlone DEF CacheInit
  <1> QED
    BY <1>1 DEF CodeInv

(* Emptying the cache keeps it, when no block runs. *)
LEMMA EmptiedInv ==
    ASSUME CodeInv, Becomes(EmptyCache), stale' = {}, current' = None, unnoticed' = unnoticed, initialized' \in BOOLEAN
    PROVE  CodeInv'
  <1>1. EmptyCache \in Caches
    BY EmptyFull DEF Full, Well
  <1>2. Cache' = EmptyCache
    BY <1>1 DEF Becomes, Cache, Caches
  <1>3. Full(Cache')
    BY <1>2, EmptyFull
  <1> QED
    BY <1>3 DEF CodeInv

(* CacheReset keeps it. *)
LEMMA CacheResetInv == ASSUME CodeInv, CacheReset PROVE CodeInv'
  <1>1. current = None /\ initialized \in BOOLEAN
    BY DEF CacheReset, InCore, CodeInv
  <1> QED
    BY <1>1, EmptiedInv DEF CacheReset

(* CacheClose keeps it. *)
LEMMA CacheCloseInv == ASSUME CodeInv, CacheClose PROVE CodeInv'
  <1>1. current = None
    BY DEF CacheClose, InCore
  <1> QED
    BY <1>1, EmptiedInv DEF CacheClose

(* WriteCode keeps it: what the bytes were translated to is gone. *)
LEMMA WriteCodeInv ==
    ASSUME CodeInv, NEW p \in Pages, NEW s \in Addresses, NEW e \in s..PageEnd, WriteCode(p, s, e)
    PROVE  CodeInv'
  <1> DEFINE d == Written(Cache, p, s, e)
             L == LiveIn(Cache)
  <1>1. e \in Addresses /\ s <= e
    BY CodeConstants DEF Addresses
  <1>2. Full(Cache) /\ HasHandler(Cache, p)
    BY DEF CodeInv, WriteCode
  <1>3. Full(d) /\ Kept(Cache, d) /\ \A b \in Blocks : ~Covers(d, b, p, s, e)
    BY <1>1, <1>2, WrittenFull
  <1>4. /\ Becomes(d) /\ initialized' = initialized
        /\ \/ current' = None /\ stale' = stale /\ unnoticed' = unnoticed
           \/ /\ current' = current /\ stale' = stale \cup {b \in Blocks : Covers(d, b, p, s, e)}
              /\ unnoticed' = (current # None /\ ~IsLive(d, current))
    BY DEF WriteCode
  <1> HIDE DEF d
  <1>5. d \in Caches
    BY <1>3 DEF Full, Well
  <1>6. Cache' = d
    BY <1>4, <1>5 DEF Becomes, Cache, Caches
  <1>7. blocks' = d.blocks
    BY <1>4 DEF Becomes
  <1>8. stale' = stale
    BY <1>3, <1>4 DEF CodeInv
  <1>9. LiveIn(d) \subseteq LiveIn(Cache) /\ \A b \in LiveIn(d) : d.blocks[b].hashed = blocks[b].hashed
    BY <1>3, CacheFields DEF Kept
  <1>10. unnoticed' \in BOOLEAN /\ current' \in Blocks \cup {None}
    BY <1>4 DEF CodeInv
  <1>11. current' # None /\ ~unnoticed' => current' \in LiveIn(d) /\ d.blocks[current'].hashed
    <2> SUFFICES ASSUME current' # None, ~unnoticed'
                 PROVE  current' \in LiveIn(d) /\ d.blocks[current'].hashed
      OBVIOUS
    <2>1. current' = current /\ current # None /\ IsLive(d, current)
      BY <1>4
    <2>2. ~unnoticed
      BY DEF WriteCode, Goes
    <2>3. current \in LiveIn(Cache) /\ blocks[current].hashed /\ current \in Blocks
      BY <2>1, <2>2 DEF CodeInv
    <2>4. current \in LiveIn(d)
      BY <2>1, <2>3 DEF LiveIn, IsLive
    <2> QED
      BY <1>9, <2>1, <2>3, <2>4
  <1>12. Full(Cache')
    BY <1>3, <1>6
  <1>13. stale' \in SUBSET Blocks /\ stale' \cap LiveIn(Cache') = {} /\ initialized' \in BOOLEAN
    BY <1>4, <1>6, <1>8, <1>9 DEF CodeInv
  <1>14. current' # None /\ ~unnoticed' => current' \in LiveIn(Cache') /\ blocks'[current'].hashed
    BY <1>6, <1>7, <1>11
  <1> QED
    BY <1>10, <1>12, <1>13, <1>14 DEF CodeInv
-----------------------------------------------------------------------------
(* A link that is made.                                                    *)
LinkMade(blks, f, i, b) == [blks EXCEPT ![f].to[i] = b, ![b].from[i] = @ \cup {f}]

Linking(blks, new, f, i, b) ==
    /\ new \in BlockMaps
    /\ \A x \in Blocks :
          /\ new[x].page = blks[x].page /\ new[x].first = blks[x].first /\ new[x].last = blks[x].last
          /\ new[x].hashed = blks[x].hashed /\ new[x].other = blks[x].other
          /\ \A j \in LinkIds :
                /\ new[x].to[j] = IF x = f /\ j = i THEN b ELSE blks[x].to[j]
                /\ new[x].from[j] = IF x = b /\ j = i THEN blks[x].from[j] \cup {f} ELSE blks[x].from[j]

(* Making a link changes the two ends of it. *)
LEMMA LinkMadeIs ==
    ASSUME NEW blks \in BlockMaps, NEW f \in Blocks, NEW i \in LinkIds, NEW b \in Blocks,
           NEW new, new = LinkMade(blks, f, i, b)
    PROVE  Linking(blks, new, f, i, b)
  <1> DEFINE half == [blks EXCEPT ![f].to[i] = b]
  <1>1. new = [half EXCEPT ![b].from[i] = @ \cup {f}]
    BY DEF LinkMade
  <1>2. half = [blks EXCEPT ![f] = [blks[f] EXCEPT !.to = [blks[f].to EXCEPT ![i] = b]]]
    BY Zenon
  <1>3. /\ blks[f] \in BlockRecs /\ [blks[f].to EXCEPT ![i] = b] \in [LinkIds -> Blocks \cup {LinkBlock}]
        /\ \A j \in LinkIds : [blks[f].to EXCEPT ![i] = b][j] = IF j = i THEN b ELSE blks[f].to[j]
    BY BlockFields
  <1> DEFINE rf == [blks[f] EXCEPT !.to = [blks[f].to EXCEPT ![i] = b]]
  <1>4. /\ rf \in BlockRecs /\ rf.page = blks[f].page /\ rf.first = blks[f].first /\ rf.last = blks[f].last
        /\ rf.hashed = blks[f].hashed /\ rf.other = blks[f].other /\ rf.from = blks[f].from
        /\ \A j \in LinkIds : rf.to[j] = IF j = i THEN b ELSE blks[f].to[j]
    BY <1>3 DEF BlockRecs
  <1> HIDE DEF rf
  <1>5. half \in BlockMaps /\ \A x \in Blocks : half[x] = IF x = f THEN rf ELSE blks[x]
    BY <1>2, <1>4 DEF BlockMaps, rf
  <1> HIDE DEF half
  <1>6. new = [half EXCEPT ![b] = [half[b] EXCEPT !.from = [half[b].from EXCEPT ![i] = half[b].from[i] \cup {f}]]]
    BY Zenon, <1>1
  <1>7. /\ half[b] \in BlockRecs /\ half[b].from \in [LinkIds -> SUBSET Blocks]
    BY <1>5, BlockFields
  <1> DEFINE from == [half[b].from EXCEPT ![i] = half[b].from[i] \cup {f}]
             rb == [half[b] EXCEPT !.from = from]
  <1>8. /\ from \in [LinkIds -> SUBSET Blocks]
        /\ \A j \in LinkIds : from[j] = IF j = i THEN half[b].from[j] \cup {f} ELSE half[b].from[j]
    BY <1>7
  <1> HIDE DEF from
  <1>9. /\ rb \in BlockRecs /\ rb.page = half[b].page /\ rb.first = half[b].first /\ rb.last = half[b].last
        /\ rb.hashed = half[b].hashed /\ rb.other = half[b].other /\ rb.to = half[b].to /\ rb.from = from
    BY <1>7, <1>8 DEF BlockRecs
  <1>10. new = [half EXCEPT ![b] = rb]
    BY <1>6 DEF from
  <1> HIDE DEF rb
  <1>11. new \in BlockMaps /\ \A x \in Blocks : new[x] = IF x = b THEN rb ELSE half[x]
    BY <1>5, <1>9, <1>10 DEF BlockMaps
  <1> HIDE <1>1, <1>2, <1>6, <1>10
  <1>12. \A x \in Blocks :
            /\ half[x].page = blks[x].page /\ half[x].first = blks[x].first /\ half[x].last = blks[x].last
            /\ half[x].hashed = blks[x].hashed /\ half[x].other = blks[x].other /\ half[x].from = blks[x].from
    BY <1>4, <1>5
  <1>13. \A x \in Blocks, j \in LinkIds : half[x].to[j] = IF x = f /\ j = i THEN b ELSE blks[x].to[j]
    BY <1>4, <1>5
  <1>14. \A x \in Blocks :
            /\ new[x].page = half[x].page /\ new[x].first = half[x].first /\ new[x].last = half[x].last
            /\ new[x].hashed = half[x].hashed /\ new[x].other = half[x].other /\ new[x].to = half[x].to
    BY <1>9, <1>11
  <1>15. \A x \in Blocks, j \in LinkIds :
            new[x].from[j] = IF x = b /\ j = i THEN half[x].from[j] \cup {f} ELSE half[x].from[j]
    BY <1>8, <1>9, <1>11
  <1> QED
    BY <1>11, <1>12, <1>13, <1>14, <1>15 DEF Linking

(* The links are sound with the one that is made, a link to itself too. *)
LEMMA LinkMadeLinked ==
    ASSUME NEW blks \in BlockMaps, NEW A \in SUBSET Blocks, Linked(blks, A), NEW f \in A, NEW i \in LinkIds,
           NEW b \in A, blks[f].hashed, blks[b].hashed, blks[f].to[i] = LinkBlock,
           NEW new, Linking(blks, new, f, i, b)
    PROVE  Linked(new, A)
  <1>1. \A x \in Blocks :
           /\ new[x].hashed = blks[x].hashed
           /\ \A j \in LinkIds :
                 /\ new[x].to[j] = IF x = f /\ j = i THEN b ELSE blks[x].to[j]
                 /\ new[x].from[j] = IF x = b /\ j = i THEN blks[x].from[j] \cup {f} ELSE blks[x].from[j]
    BY DEF Linking
  <1>2. \A x \in A, j \in LinkIds : blks[x].hashed =>
           /\ blks[x].to[j] # LinkBlock =>
                 blks[x].to[j] \in A /\ blks[blks[x].to[j]].hashed /\ x \in blks[blks[x].to[j]].from[j]
           /\ \A g \in blks[x].from[j] : g \in A /\ blks[g].hashed /\ blks[g].to[j] = x
    BY DEF Linked
  <1>3. \A x \in Blocks, j \in LinkIds : x \notin A \/ ~blks[x].hashed => blks[x].from[j] = {}
    BY DEF Linked
  <1>4. ASSUME NEW x \in A, NEW j \in LinkIds, new[x].hashed, new[x].to[j] # LinkBlock
        PROVE  new[x].to[j] \in A /\ new[new[x].to[j]].hashed /\ x \in new[new[x].to[j]].from[j]
    <2>1. blks[x].hashed
      BY <1>1, <1>4
    <2>2. CASE x = f /\ j = i
      <3>1. new[x].to[j] = b
        BY <1>1, <2>2
      <3>2. new[b].from[i] = blks[b].from[i] \cup {f} /\ new[b].hashed
        BY <1>1
      <3> QED
        BY <2>2, <3>1, <3>2
    <2>3. CASE ~(x = f /\ j = i)
      <3> DEFINE t == blks[x].to[j]
      <3>1. new[x].to[j] = t
        BY <1>1, <2>3
      <3>2. t \in A /\ blks[t].hashed /\ x \in blks[t].from[j]
        BY <1>2, <1>4, <2>1, <3>1
      <3> HIDE DEF t
      <3>3. new[t].hashed /\ blks[t].from[j] \subseteq new[t].from[j]
        BY <1>1, <3>2
      <3> QED
        BY <3>1, <3>2, <3>3
    <2> QED
      BY <2>2, <2>3
  <1>5. ASSUME NEW x \in A, NEW j \in LinkIds, new[x].hashed, NEW g \in new[x].from[j]
        PROVE  g \in A /\ new[g].hashed /\ new[g].to[j] = x
    <2>1. blks[x].hashed
      BY <1>1, <1>5
    <2>2. g \in blks[x].from[j] \/ (x = b /\ j = i /\ g = f)
      <3>1. x \in Blocks /\ g \in new[x].from[j]
        BY <1>5
      <3>2. new[x].from[j] = IF x = b /\ j = i THEN blks[x].from[j] \cup {f} ELSE blks[x].from[j]
        BY <1>1, <3>1
      <3>3. CASE x = b /\ j = i
        BY <3>1, <3>2, <3>3
      <3>4. CASE ~(x = b /\ j = i)
        <4>1. new[x].from[j] = blks[x].from[j]
          BY <3>2, <3>4
        <4> QED
          BY <3>1, <4>1
      <3> QED
        BY <3>3, <3>4
    <2>3. CASE g \in blks[x].from[j]
      <3>1. g \in A /\ blks[g].hashed /\ blks[g].to[j] = x
        BY <1>2, <2>1, <2>3
      <3>2. ~(g = f /\ j = i)
        BY <3>1, CodeConstants
      <3> QED
        BY <1>1, <3>1, <3>2
    <2>4. CASE x = b /\ j = i /\ g = f
      BY <1>1, <2>4
    <2> QED
      BY <2>2, <2>3, <2>4
  <1>6. ASSUME NEW x \in Blocks, NEW j \in LinkIds, x \notin A \/ ~new[x].hashed
        PROVE  new[x].from[j] = {}
    <2>1. x \notin A \/ ~blks[x].hashed
      BY <1>1, <1>6
    <2>2. x # b
      BY <2>1
    <2>3. new[x].from[j] = IF x = b /\ j = i THEN blks[x].from[j] \cup {f} ELSE blks[x].from[j]
      BY <1>1
    <2>4. new[x].from[j] = blks[x].from[j]
      BY <2>2, <2>3
    <2>5. blks[x].from[j] = {}
      BY <1>3, <2>1
    <2> QED
      BY <2>4, <2>5
  <1> QED
    BY <1>4, <1>5, <1>6 DEF Linked

(* The rest of the cache does not depend on the links. *)
LEMMA RelinkedFull ==
    ASSUME NEW c, Full(c), NEW new \in BlockMaps, Linked(new, LiveIn(c)), NEW d, d = [c EXCEPT !.blocks = new],
           \A x \in Blocks : /\ new[x].page = c.blocks[x].page /\ new[x].first = c.blocks[x].first
                             /\ new[x].last = c.blocks[x].last /\ new[x].hashed = c.blocks[x].hashed
                             /\ new[x].other = c.blocks[x].other
    PROVE  Full(d) /\ LiveIn(d) = LiveIn(c)
  <1>1. /\ c \in Caches /\ Paired(c.blocks, LiveIn(c)) /\ Stretches(c.blocks)
        /\ Conserved(c, LiveIn(c)) /\ Counted(c, Pages) /\ Handled(c)
    BY DEF Full, Well
  <1>2. /\ d \in Caches /\ d.blocks = new /\ d.code = c.code /\ d.active = c.active /\ d.free = c.free
        /\ d.write_map = c.write_map /\ d.used = c.used
    BY <1>1, WithBlocks
  <1>3. LiveIn(d) = LiveIn(c)
    BY <1>2 DEF LiveIn
  <1> DEFINE A == LiveIn(c)
  <1>4. A \in SUBSET Blocks
    BY DEF LiveIn
  <1> HIDE DEF A
  <1>5. Paired(new, A)
    <2>1. /\ \A b \in A : c.blocks[b].other # None =>
                /\ c.blocks[b].other \in A /\ c.blocks[c.blocks[b].other].other = b
                /\ c.blocks[c.blocks[b].other].hashed # c.blocks[b].hashed
                /\ c.blocks[c.blocks[b].other].page # c.blocks[b].page
          /\ \A b \in Blocks \ A : c.blocks[b].other = None /\ c.blocks[b].page = None
      BY <1>1 DEF Paired, A
    <2>2. ASSUME NEW b \in A, new[b].other # None
          PROVE  /\ new[b].other \in A /\ new[new[b].other].other = b
                 /\ new[new[b].other].hashed # new[b].hashed /\ new[new[b].other].page # new[b].page
      <3> DEFINE o == c.blocks[b].other
      <3>1. new[b].other = o /\ b \in Blocks
        BY <1>4
      <3>2. o \in A /\ c.blocks[o].other = b /\ c.blocks[o].hashed # c.blocks[b].hashed
            /\ c.blocks[o].page # c.blocks[b].page
        BY <2>1, <2>2, <3>1
      <3> HIDE DEF o
      <3>3. /\ new[o].other = c.blocks[o].other /\ new[o].hashed = c.blocks[o].hashed
            /\ new[o].page = c.blocks[o].page
        BY <1>4, <3>2
      <3>4. new[b].hashed = c.blocks[b].hashed /\ new[b].page = c.blocks[b].page
        BY <3>1
      <3> QED
        BY Zenon, <3>1, <3>2, <3>3, <3>4
    <2> QED
      BY <2>1, <2>2 DEF Paired
  <1>6. Stretches(new)
    BY <1>1 DEF Stretches
  <1>7. CrossOf(new, A) = CrossOf(c.blocks, A)
    BY <1>4 DEF CrossOf
  <1>8. Conserved(d, A)
    BY <1>1, <1>2, <1>7 DEF Conserved, A
  <1>9. Counted(d, Pages)
    <2>1. \A p \in Pages, a \in Addresses : Over(new, p, a) = Over(c.blocks, p, a)
      BY DEF Over
    <2> QED
      BY <1>1, <1>2, <2>1 DEF Counted
  <1>10. Handled(d)
    BY <1>1, <1>2 DEF Handled, HasHandler
  <1>11. Rooted(d)
    BY <1>2, <1>3, <1>4 DEF Rooted, Full, A
  <1>12. Well(d, LiveIn(d), Pages)
    BY <1>2, <1>3, <1>4, <1>5, <1>6, <1>8, <1>9, <1>10 DEF Well, A
  <1> QED
    BY <1>2, <1>3, <1>11, <1>12 DEF Full

(* LinkTo keeps it. *)
LEMMA LinkToInv == ASSUME CodeInv, NEW i \in LinkIds, NEW b \in Blocks, LinkTo(i, b) PROVE CodeInv'
  <1> DEFINE f == current
             new == LinkMade(blocks, f, i, b)
             d == [Cache EXCEPT !.blocks = new]
             A == LiveIn(Cache)
  <1>1. /\ f \in A /\ blocks[f].hashed /\ f \in Blocks /\ blocks[f].to[i] = LinkBlock
        /\ b \in A /\ blocks[b].hashed
    BY RunningIs, CacheFields DEF LinkTo, IsLive, LiveIn
  <1>2. Full(Cache) /\ blocks \in BlockMaps /\ Linked(blocks, A) /\ A \in SUBSET Blocks
    BY CacheFields, CodeFields DEF CodeInv, Full, Well
  <1>3. blocks' = new /\ Cache' = d /\ current' = b
    <2>1. /\ blocks' = new /\ current' = b /\ code' = code /\ active' = active /\ free' = free
          /\ write_map' = write_map /\ used' = used /\ active_count' = active_count
      BY Zenon DEF LinkTo, LinkMade
    <2> HIDE DEF new
    <2>2. Cache' = d
      BY <2>1 DEF Cache
    <2> QED
      BY <2>1, <2>2
  <1>4. /\ initialized' = initialized /\ stale' = stale /\ unnoticed' = unnoticed
    BY DEF LinkTo
  <1> HIDE DEF A, f
  <1>5. new \in BlockMaps /\ Linked(new, A) /\ \A x \in Blocks :
           /\ new[x].page = blocks[x].page /\ new[x].first = blocks[x].first /\ new[x].last = blocks[x].last
           /\ new[x].hashed = blocks[x].hashed /\ new[x].other = blocks[x].other
    <2>1. b \in Blocks /\ f \in Blocks
      BY <1>1
    <2>2. Linking(blocks, new, f, i, b)
      BY <1>2, <2>1, LinkMadeIs
    <2> HIDE DEF new
    <2>3. Linked(new, A)
      BY <1>1, <1>2, <2>2, LinkMadeLinked
    <2> QED
      BY <2>2, <2>3 DEF Linking
  <1> HIDE DEF new
  <1>6. Full(d) /\ LiveIn(d) = LiveIn(Cache)
    BY <1>2, <1>5, CacheFields, RelinkedFull DEF A
  <1> HIDE DEF d
  <1>7. Full(Cache')
    BY <1>3, <1>6
  <1>8. stale' \in SUBSET Blocks /\ stale' \cap LiveIn(Cache') = {} /\ initialized' \in BOOLEAN /\ unnoticed' \in BOOLEAN
    BY <1>3, <1>4, <1>6 DEF CodeInv
  <1>9. current' \in LiveIn(Cache') /\ blocks'[current'].hashed
    BY <1>1, <1>3, <1>5, <1>6 DEF A
  <1> QED
    BY <1>3, <1>7, <1>8, <1>9 DEF CodeInv
-----------------------------------------------------------------------------
(* A translation, from its page on.                                        *)
LEMMA TranslatedInv ==
    ASSUME CodeInv, NEW e, Full(e), Becomes(e), active \in LiveIn(e), e.blocks[active].hashed,
           current' = active, stale' = {b \in stale : blocks'[b] = blocks[b]},
           initialized' = initialized, unnoticed' = unnoticed
    PROVE  CodeInv'
  <1>1. e \in Caches
    BY DEF Full, Well
  <1>2. Cache' = e /\ blocks' = e.blocks
    BY <1>1 DEF Becomes, Cache, Caches
  <1>3. Full(Cache')
    BY <1>2
  <1>4. stale' \in SUBSET Blocks /\ initialized' \in BOOLEAN /\ unnoticed' \in BOOLEAN
    BY DEF CodeInv
  <1>5. stale' \cap LiveIn(Cache') = {}
    <2> SUFFICES ASSUME NEW b \in stale', b \in LiveIn(e) PROVE FALSE
      BY <1>2
    <2>1. b \in stale /\ e.blocks[b] = blocks[b] /\ b \in Blocks /\ e.blocks[b].page # None
      BY <1>2 DEF LiveIn
    <2>2. b \in LiveIn(Cache)
      BY <2>1, CacheFields DEF LiveIn
    <2> QED
      BY <2>1, <2>2 DEF CodeInv
  <1>6. current' \in LiveIn(Cache') /\ blocks'[current'].hashed
    BY <1>2
  <1>7. current' \in Blocks
    BY <1>6 DEF LiveIn
  <1> QED
    BY <1>3, <1>4, <1>5, <1>6, <1>7 DEF CodeInv

(* One free structure, and two, are enough for what takes as many. *)
LEMMA Enough ==
    ASSUME NEW F \in SUBSET Blocks
    PROVE  /\ Cardinality(F) >= 1 => F # {}
           /\ \A x : Cardinality(F) >= 2 => F \ {x} # {}
  <1>1. IsFiniteSet(F)
    BY CodeConstants, FS_Subset
  <1>2. Cardinality({}) = 0 /\ Cardinality(F) \in Nat
    BY <1>1, FS_EmptySet, FS_CardinalityType
  <1>3. ASSUME NEW x, F \ {x} = {} PROVE Cardinality(F) <= 1
    <2>1. F = {} \/ F = {x}
      BY <1>3
    <2>2. Cardinality({x}) = 1
      BY FS_Singleton
    <2> QED
      BY <1>2, <2>1, <2>2
  <1>4. Cardinality(F) >= 1 => F # {}
    BY <1>2
  <1>5. \A x : Cardinality(F) >= 2 => F \ {x} # {}
    BY <1>2, <1>3
  <1> QED
    BY <1>4, <1>5

(* The room is made. *)
LEMMA OpenedIs ==
    ASSUME CodeInv, NEW p \in Pages, NEW o, o = OpenBlock(MakeCodePage(Cache, p, None))
    PROVE  /\ Full(o) /\ o.active = active /\ HasHandler(o, p) /\ o.active \notin LiveIn(o)
           /\ o.free \in SUBSET Blocks
  <1> DEFINE m == MakeCodePage(Cache, p, None)
  <1>1. Full(Cache)
    BY DEF CodeInv
  <1>2. Full(m) /\ Kept(Cache, m) /\ HasHandler(m, p)
    BY <1>1, MakeCodePageFull
  <1>3. o = OpenBlock(m)
    OBVIOUS
  <1> HIDE DEF m
  <1>4. Full(o) /\ o.active = m.active /\ o.used = m.used /\ m.active \notin LiveIn(o)
    BY <1>2, <1>3, OpenBlockFull
  <1>5. m.active = active
    BY <1>2, CacheFields DEF Kept
  <1>6. HasHandler(o, p)
    BY <1>2, <1>4 DEF HasHandler
  <1>7. o.free \in SUBSET Blocks
    BY <1>4, FreeDead
  <1> QED
    BY <1>4, <1>5, <1>6, <1>7

(* Whether a piece is cut depends on the memory alone. *)
LEMMA SplitsSame ==
    ASSUME NEW c, NEW d, d.code = c.code, d.active = c.active, NEW written
    PROVE  Splits(d, written) <=> Splits(c, written)
  BY DEF Splits, Place

(* A translation within a page, to its end. *)
LEMMA TranslatesIn ==
    ASSUME NEW o, Full(o), NEW p \in Pages, HasHandler(o, p), o.active \notin LiveIn(o),
           NEW first \in Addresses, NEW last \in first..PageEnd, NEW written \in 1..CacheMaxSize,
           Splits(o, written) => o.free # {},
           NEW e, e = CloseBlock(TranslateIn(o, p, first, last), written)
    PROVE  Full(e) /\ o.active \in LiveIn(e) /\ e.blocks[o.active].hashed
  <1> DEFINE d == TranslateIn(o, p, first, last)
  <1>1. last \in Addresses /\ first <= last
    BY CodeConstants DEF Addresses
  <1>2. /\ Full(d) /\ d.code = o.code /\ d.active = o.active /\ d.free = o.free
        /\ o.active \in LiveIn(d) /\ d.blocks[o.active].hashed
    BY <1>1, TranslateInFull
  <1>3. e = CloseBlock(d, written)
    OBVIOUS
  <1> HIDE DEF d
  <1>4. Splits(d, written) => d.free # {}
    BY <1>2, SplitsSame
  <1>5. Full(e) /\ e.blocks = d.blocks /\ LiveIn(e) = LiveIn(d)
    BY <1>2, <1>3, <1>4, CloseBlockFull
  <1> QED
    BY <1>2, <1>5

(* A translation over the end of a page, to its end. *)
LEMMA TranslatesOver ==
    ASSUME NEW o, Full(o), NEW p \in Pages, HasHandler(o, p), o.active \notin LiveIn(o),
           NEW first \in Addresses, NEW q \in Pages \ {p}, NEW end \in Addresses, NEW written \in 1..CacheMaxSize,
           o.free # {}, \A x : Splits(o, written) => o.free \ {x} # {},
           NEW e, e = CloseBlock(TranslateOver(o, p, first, q, end), written)
    PROVE  Full(e) /\ o.active \in LiveIn(e) /\ e.blocks[o.active].hashed
  <1> DEFINE d == TranslateOver(o, p, first, q, end)
  <1>1. /\ Full(d) /\ d.code = o.code /\ d.active = o.active
        /\ o.active \in LiveIn(d) /\ d.blocks[o.active].hashed
        /\ \E x : o.free \ {x} \subseteq d.free
    BY TranslateOverFull
  <1>2. e = CloseBlock(d, written)
    OBVIOUS
  <1> HIDE DEF d
  <1>3. Splits(d, written) => d.free # {}
    <2>1. Splits(d, written) <=> Splits(o, written)
      BY <1>1, SplitsSame
    <2> QED
      BY <1>1, <2>1
  <1>4. Full(e) /\ e.blocks = d.blocks /\ LiveIn(e) = LiveIn(d)
    BY <1>1, <1>2, <1>3, CloseBlockFull
  <1> QED
    BY <1>1, <1>4

(* Translate keeps the invariant. *)
LEMMA TranslateInv ==
    ASSUME CodeInv, NEW p \in Pages, NEW first \in Addresses, Translate(p, first)
    PROVE  CodeInv'
  <1> DEFINE o == OpenBlock(MakeCodePage(Cache, p, None))
  <1>1. /\ Full(o) /\ o.active = active /\ HasHandler(o, p) /\ o.active \notin LiveIn(o)
        /\ o.free \in SUBSET Blocks
    BY OpenedIs
  <1>2. /\ current' = active /\ stale' = {b \in stale : blocks'[b] = blocks[b]}
        /\ initialized' = initialized /\ unnoticed' = unnoticed
    BY DEF Translate
  <1>3. \E written \in 1..CacheMaxSize :
           \/ \E last \in first..PageEnd :
                 /\ Cardinality(o.free) >= (IF Splits(o, written) THEN 1 ELSE 0)
                 /\ Becomes(CloseBlock(TranslateIn(o, p, first, last), written))
           \/ \E q \in Pages \ {p}, end \in Addresses :
                 /\ Cardinality(o.free) >= (IF Splits(o, written) THEN 1 ELSE 0) + 1
                 /\ Becomes(CloseBlock(TranslateOver(o, p, first, q, end), written))
    BY Zenon DEF Translate
  <1> HIDE DEF o
  <1>4. PICK written \in 1..CacheMaxSize :
           \/ \E last \in first..PageEnd :
                 /\ Cardinality(o.free) >= (IF Splits(o, written) THEN 1 ELSE 0)
                 /\ Becomes(CloseBlock(TranslateIn(o, p, first, last), written))
           \/ \E q \in Pages \ {p}, end \in Addresses :
                 /\ Cardinality(o.free) >= (IF Splits(o, written) THEN 1 ELSE 0) + 1
                 /\ Becomes(CloseBlock(TranslateOver(o, p, first, q, end), written))
    BY <1>3
  <1>5. CASE \E last \in first..PageEnd :
                /\ Cardinality(o.free) >= (IF Splits(o, written) THEN 1 ELSE 0)
                /\ Becomes(CloseBlock(TranslateIn(o, p, first, last), written))
    <2>1. PICK last \in first..PageEnd :
             /\ Cardinality(o.free) >= (IF Splits(o, written) THEN 1 ELSE 0)
             /\ Becomes(CloseBlock(TranslateIn(o, p, first, last), written))
      BY <1>5
    <2>2. Splits(o, written) => o.free # {}
      BY <1>1, <2>1, Enough
    <2> DEFINE e == CloseBlock(TranslateIn(o, p, first, last), written)
    <2>3. Full(e) /\ o.active \in LiveIn(e) /\ e.blocks[o.active].hashed
      BY <1>1, <2>2, TranslatesIn
    <2>4. Becomes(e)
      BY <2>1
    <2> HIDE DEF e
    <2> QED
      BY <1>1, <1>2, <2>3, <2>4, TranslatedInv
  <1>6. CASE \E q \in Pages \ {p}, end \in Addresses :
                /\ Cardinality(o.free) >= (IF Splits(o, written) THEN 1 ELSE 0) + 1
                /\ Becomes(CloseBlock(TranslateOver(o, p, first, q, end), written))
    <2>1. PICK q \in Pages \ {p}, end \in Addresses :
             /\ Cardinality(o.free) >= (IF Splits(o, written) THEN 1 ELSE 0) + 1
             /\ Becomes(CloseBlock(TranslateOver(o, p, first, q, end), written))
      BY <1>6
    <2>2. o.free # {}
      <3>1. Cardinality(o.free) \in Nat
        BY <1>1, CodeConstants, FS_Subset, FS_CardinalityType
      <3>2. Cardinality(o.free) >= 1
        BY <2>1, <3>1
      <3> QED
        BY <1>1, <3>2, Enough
    <2>3. \A x : Splits(o, written) => o.free \ {x} # {}
      BY <1>1, <2>1, Enough
    <2> DEFINE e == CloseBlock(TranslateOver(o, p, first, q, end), written)
    <2>4. Full(e) /\ o.active \in LiveIn(e) /\ e.blocks[o.active].hashed
      BY <1>1, <2>2, <2>3, TranslatesOver
    <2>5. Becomes(e)
      BY <2>1
    <2> HIDE DEF e
    <2> QED
      BY <1>1, <1>2, <2>4, <2>5, TranslatedInv
  <1> QED
    BY <1>4, <1>5, <1>6

(* Every step keeps it. *)
LEMMA CodeNextInv == CodeInv /\ [CodeNext]_codeVars => CodeInv'
  <1> SUFFICES ASSUME CodeInv, [CodeNext]_codeVars PROVE CodeInv'
    OBVIOUS
  <1>1. ASSUME NEW p \in Pages, NEW first \in Addresses, Translate(p, first) PROVE CodeInv'
    BY <1>1, TranslateInv
  <1>2. ASSUME NEW b \in Blocks, RunBlock(b) PROVE CodeInv'
    BY <1>2, RunBlockInv
  <1>3. ASSUME NEW i \in LinkIds, Follow(i) PROVE CodeInv'
    BY <1>3, FollowInv
  <1>4. ASSUME NEW i \in LinkIds, NEW b \in Blocks, LinkTo(i, b) PROVE CodeInv'
    BY <1>4, LinkToInv
  <1>5. CASE LeaveBlock
    BY <1>5, LeaveBlockInv
  <1>6. ASSUME NEW p \in Pages, NEW s \in Addresses, NEW e \in s..PageEnd, WriteCode(p, s, e) PROVE CodeInv'
    BY <1>6, WriteCodeInv
  <1>7. CASE CacheReset
    BY <1>7, CacheResetInv
  <1>8. CASE CacheClose
    BY <1>8, CacheCloseInv
  <1>9. CASE CacheInit
    BY <1>9, CacheInitInv
  <1>10. CASE UNCHANGED codeVars
    <2>1. /\ Cache' = Cache /\ blocks' = blocks /\ initialized' = initialized /\ current' = current
          /\ stale' = stale /\ unnoticed' = unnoticed
      BY <1>10, CacheAlone DEF codeVars
    <2> QED
      BY <2>1 DEF CodeInv
  <1> QED
    BY <1>1, <1>2, <1>3, <1>4, <1>5, <1>6, <1>7, <1>8, <1>9, <1>10 DEF CodeNext

(* What a reader of the states may take for granted. *)
LEMMA CodeInvAlways == CodeSpec => []CodeInv
  BY CodeInitInv, CodeNextInv, PTL DEF CodeSpec
-----------------------------------------------------------------------------
(* The properties.                                                         *)
LEMMA LiveIs == Live = LiveIn(Cache) /\ CrossBlocks = CrossOf(Cache.blocks, LiveIn(Cache)) /\ Pieces = PieceBlocks(Cache.code)
  <1>1. Live = LiveIn(Cache)
    BY CacheFields DEF Live, LiveIn, IsLive
  <1>2. CrossBlocks = CrossOf(Cache.blocks, LiveIn(Cache))
    BY <1>1, CacheFields DEF CrossBlocks, CrossOf
  <1>3. Pieces = PieceBlocks(Cache.code)
    BY CacheFields DEF Pieces, PieceBlocks
  <1> QED
    BY <1>1, <1>2, <1>3

(* The links. *)
LEMMA InvLinks == CodeInv => LinksLead
  <1> SUFFICES ASSUME CodeInv PROVE LinksLead
    OBVIOUS
  <1> DEFINE A == LiveIn(Cache)
  <1>1. Linked(blocks, A)
    BY CacheFields DEF CodeInv, Full, Well
  <1>2. Live = A /\ \A x : x \in Live \ CrossBlocks <=> x \in A /\ blocks[x].hashed
    BY LiveIs DEF CrossBlocks
  <1> HIDE DEF A
  <1>3. ASSUME NEW b \in Live \ CrossBlocks, NEW i \in LinkIds
        PROVE  /\ blocks[b].to[i] # LinkBlock =>
                     /\ blocks[b].to[i] \in Live \ CrossBlocks /\ b \in blocks[blocks[b].to[i]].from[i]
               /\ \A f \in blocks[b].from[i] : f \in Live /\ blocks[f].to[i] = b
    BY <1>1, <1>2 DEF Linked
  <1> QED
    BY <1>3 DEF LinksLead

(* Links stay true: a block that can run jumps only to blocks that stand   *)
(* for something and that know of it, through every clearing, reuse of the *)
(* memory and release of a page (LinkTo, Clear, cache_openblock).          *)
THEOREM LinksStayTrue == CodeSpec => []LinksLead
  BY InvLinks, CodeInvAlways, PTL

(* What runs, and what is stale. *)
LEMMA InvCurrent == CodeInv => CodeIsCurrent
  BY LiveIs DEF CodeInv, CodeIsCurrent

(* No block that can be found stands for bytes written since it was        *)
(* translated, and the block that runs is one of these (InvalidateRange,   *)
(* the handlers of the pages).                                             *)
THEOREM CodeStaysCurrent == CodeSpec => []CodeIsCurrent
  BY InvCurrent, CodeInvAlways, PTL

(* There are as many structures of pieces as pieces. *)
LEMMA PiecesCount ==
    ASSUME NEW mem \in Seq(PieceRecs), Apart(mem)
    PROVE  Cardinality(PieceBlocks(mem)) = Len(mem)
  <1> DEFINE n == Len(mem)
             f == [k \in 1..n |-> mem[k].block]
             P == PieceBlocks(mem)
  <1>1. n \in Nat
    OBVIOUS
  <1>2. f \in [1..n -> P] /\ \A t \in P : \E k \in 1..n : f[k] = t
    BY DEF PieceBlocks
  <1>3. \A k, l \in 1..n : f[k] = f[l] => k = l
    BY DEF Apart
  <1> HIDE DEF n, f, P
  <1>4. f \in Bijection(1..n, P)
    BY <1>2, <1>3, Fun_IsBij
  <1>5. ExistsBijection(1..n, P)
    BY <1>4 DEF ExistsBijection
  <1>6. Cardinality(P) = n
    BY <1>1, <1>5, FS_CountingElements
  <1> QED
    BY <1>6 DEF n, P

(* The invariant has every structure in one place. *)
LEMMA InvConserved == CodeInv => BlocksConserved
  <1> SUFFICES ASSUME CodeInv PROVE BlocksConserved
    OBVIOUS
  <1>1. /\ Cache \in Caches /\ Conserved(Cache, LiveIn(Cache)) /\ Measured(Cache.code)
    BY DEF CodeInv, Full, Well
  <1>2. Cache.code = code /\ Cache.active = active /\ Cache.free = free /\ Cache.blocks = blocks
    BY CacheFields
  <1>3. code \in Seq(PieceRecs)
    BY <1>1, <1>2, CodeFields
  <1>4. /\ Apart(code) /\ active \in PieceBlocks(code)
        /\ Parts(PieceBlocks(code), CrossOf(blocks, LiveIn(Cache)), free)
    BY <1>1, <1>2 DEF Conserved
  <1>5. Cardinality(PieceBlocks(code)) = Len(code)
    BY <1>3, <1>4, PiecesCount
  <1>6. SizeOf(Cache, 1, Len(code)) = CacheTotal
    <2>1. PICK S : Sums(code, S)
      BY <1>1, <1>2 DEF Measured
    <2> DEFINE n == Len(code)
    <2>2. n \in Nat /\ n >= 1
      BY <1>3, <1>4 DEF PieceBlocks
    <2>3. S[0] = 0 /\ S[n] = CacheTotal
      BY <2>1 DEF Sums
    <2>4. n = Len(Cache.code) /\ Cache.code \in Seq(PieceRecs) /\ Sums(Cache.code, S)
      BY <1>2, <1>3, <2>1
    <2> HIDE DEF n
    <2>5. 1 \in 1..n /\ n \in 1..n
      BY <2>2
    <2>6. SizeOf(Cache, 1, n) = S[n] - S[1 - 1]
      BY <2>2, <2>4, <2>5, SizeOfIs
    <2>7. S[1 - 1] = S[0]
      OBVIOUS
    <2>8. CacheTotal \in Nat
      BY CacheAssumption
    <2>9. SizeOf(Cache, 1, n) = CacheTotal
      BY <2>3, <2>6, <2>7, <2>8
    <2> QED
      BY <2>9 DEF n
  <1>7. Pieces = PieceBlocks(code) /\ CrossBlocks = CrossOf(blocks, LiveIn(Cache))
    BY <1>2, LiveIs
  <1> QED
    BY <1>4, <1>5, <1>6, <1>7 DEF BlocksConserved, Parts

(* It has the pages know their blocks. *)
LEMMA InvPages == CodeInv => PagesKnowBlocks
  <1> SUFFICES ASSUME CodeInv PROVE PagesKnowBlocks
    OBVIOUS
  <1> DEFINE A == LiveIn(Cache)
  <1>1. Live = A /\ Cache.blocks = blocks /\ Cache.used = used /\ Cache.write_map = write_map
    BY LiveIs, CacheFields
  <1>2. /\ Cache \in Caches /\ Paired(blocks, A) /\ Counted(Cache, Pages) /\ Handled(Cache)
    BY <1>1 DEF CodeInv, Full, Well
  <1>3. \A b \in Live : HasHandler(Cache, blocks[b].page)
    BY <1>1, <1>2 DEF Handled, LiveIn
  <1>4. \A k \in 1..Len(used), a \in Addresses :
           write_map[used[k]][a] = Cardinality({b \in Blocks : Covers(Cache, b, used[k], a, a)})
    <2> SUFFICES ASSUME NEW k \in 1..Len(used), NEW a \in Addresses
                 PROVE  write_map[used[k]][a] = Cardinality({b \in Blocks : Covers(Cache, b, used[k], a, a)})
      OBVIOUS
    <2>1. used \in Seq(Pages)
      BY <1>1, <1>2, CodeFields
    <2>2. used[k] \in Pages
      BY <2>1
    <2>3. write_map[used[k]][a] = Cardinality(Over(blocks, used[k], a))
      BY <1>1, <1>2, <2>2 DEF Counted
    <2>4. Over(blocks, used[k], a) = {b \in Blocks : Covers(Cache, b, used[k], a, a)}
      BY <1>1 DEF Over, Covers
    <2> QED
      BY <2>3, <2>4
  <1>5. \A b \in Live : blocks[b].other # None =>
           /\ blocks[b].other \in Live /\ blocks[blocks[b].other].other = b
           /\ blocks[b].hashed # blocks[blocks[b].other].hashed
    BY <1>1, <1>2 DEF Paired
  <1> QED
    BY <1>3, <1>4, <1>5 DEF PagesKnowBlocks

(* It has the types. *)
LEMMA InvTypes == CodeInv => CodeTypeOK
  <1> SUFFICES ASSUME CodeInv PROVE CodeTypeOK
    OBVIOUS
  <1>1. /\ Cache \in Caches /\ Measured(Cache.code) /\ Len(Cache.used) <= CachePages
    BY DEF CodeInv, Full, Well
  <1>2. /\ blocks \in BlockMaps /\ code \in Seq(PieceRecs) /\ active \in Blocks /\ free \in SUBSET Blocks
        /\ write_map \in [Pages -> [Addresses -> Nat]] /\ used \in Seq(Pages)
        /\ active_count \in [Pages -> 1..ReleaseDelay] /\ Measured(code) /\ Len(used) <= CachePages
    BY <1>1, CodeFields, CacheFields
  <1>3. \A k \in 1..Len(code) : code[k].block \in Blocks /\ code[k].size \in 1..CacheTotal
    BY <1>2, PieceFields, SizesFit
  <1>4. /\ initialized \in BOOLEAN /\ unnoticed \in BOOLEAN /\ stale \in SUBSET Blocks
        /\ current \in Blocks \cup {None}
    BY DEF CodeInv
  <1> QED
    BY <1>2, <1>3, <1>4 DEF CodeTypeOK, BlockMaps, BlockRecs

(* The structures of the cache hold together: each is in one place, the    *)
(* pieces make up the memory, and the pages know their blocks, however     *)
(* blocks are cleared, merged, cut and given back.                         *)
THEOREM CacheStaysSound == CodeSpec => []CacheSound
  <1>1. CodeInv => CacheSound
    BY InvTypes, InvConserved, InvPages DEF CacheSound
  <1> QED
    BY <1>1, CodeInvAlways, PTL
-----------------------------------------------------------------------------
(***************************************************************************)
(* CoreThreads: the assertions of DBP_ThreadControl hold, the two          *)
(* semaphores carry one baton, and the thread that does not have it leaves *)
(* the machine alone - whether or not the user may change the strict mode  *)
(* when the DOSBox thread has exited.                                      *)
(***************************************************************************)

(* The types, the places apart from the values. *)
PlacesTyped ==
    /\ state \in States
    /\ pc \in CallPoints \cup ControlPoints \cup ShutdownPoints \cup InitPoints
    /\ ret \in Returns /\ after \in {"idle", "avInfo", "avAgain", "submit"}
    /\ dos \in {"none", "run", "onPause", "pausedWait", "finishedWait", "exited", "ended"}

ValuesTyped ==
    /\ pending \in BOOLEAN /\ pauseEvents \in BOOLEAN /\ midframe \in BOOLEAN
    /\ biosReboot \in BOOLEAN /\ crashed \in BOOLEAN /\ gameRunning \in BOOLEAN
    /\ forced \in BOOLEAN /\ loaded \in BOOLEAN /\ quit \in BOOLEAN
    /\ didPause \in {0, 1} /\ doContinue \in {0, 1}

(* The DOSBox thread has the machine, and will post semDidPause. *)
Moving == dos \in {"run", "onPause", "exited"}

(* Between a pause and its resume; a frame paused in its middle is still   *)
(* pending there, although its post has been waited for.                   *)
Collected == {"apply", "mixSkipped", "resume"}

(* The baton is with the DOSBox thread, or on its way from or to it: a     *)
(* frame is in flight, or DBP_Shutdown waits for the end.                  *)
Out == pc = "exiting" \/ (pending /\ pc \notin Collected)

(* While it is out the baton is in one place, and else in none.            *)
Baton ==
    /\ didPause = 1 => doContinue = 0 /\ ~Moving
    /\ doContinue = 1 => ~Moving
    /\ Out <=> (didPause = 1 \/ doContinue = 1 \/ Moving)

(* The pause flag is up from the request to the resume, and the DOSBox     *)
(* thread stops in the middle of a frame only for it.                      *)
Pauses ==
    /\ midframe <=> dos = "pausedWait"
    /\ pauseEvents <=> pc \in {"paused", "held"} \/ (pc \in Collected /\ pending)
    /\ pc \in {"paused", "held"} => pending
    /\ pc \in Collected /\ pending => dos = "pausedWait"
    /\ dos = "onPause" => pc \in {"paused", "held"}
    /\ dos = "pausedWait" /\ didPause = 1 => pc \in {"paused", "held"}

(* Where a frame has been waited for none is in flight. *)
Frames ==
    pc \in {"avCheck", "loaded", "firstDone", "mix", "next", "finished", "force", "wake",
            "exiting", "destroy", "reset", "start"} => (pending <=> pc = "finished")

(* Where each call of DBP_ThreadControl, DBP_Shutdown and init_dosbox comes from. *)
Calls ==
    /\ pc \in {"pause", "paused"} => ret \in {"apply", "mixSkipped"}
    /\ pc = "resume" => ret \in {"option", "idle"}
    /\ pc \in {"finish", "finished"} => ret \in {"avCheck", "loaded", "firstDone", "mix"}
    /\ pc = "next" => ret = "idle"
    /\ pc \in ShutdownPoints => ret \in {"idle", "reset", "submit"}
    /\ pc \in InitPoints \/ (pc \in ShutdownPoints /\ ret = "reset")
         => after \in {"avInfo", "avAgain", "submit"}

(* Where there need not be a machine. *)
Between == {"idle", "run", "input", "over", "submit", "init", "shutdown"}

(* What dbp_state says of the DOSBox thread and of the machine, although   *)
(* both threads write it.                                                  *)
Lives ==
    /\ dos = "none" => state = "BOOT"
    /\ state = "BOOT" => /\ ~pending /\ dos \in {"none", "ended"}
                         /\ pc = "start" \/ (pc \in {"idle", "init"} /\ ~loaded)
    /\ pc = "start" => state = "BOOT"
    /\ state = "SHUTDOWN" => dos = "ended" /\ ~pending /\ pc \in Between \cup {"reset"}
    /\ pc = "reset" => state = "SHUTDOWN"
    /\ pc = "destroy" => dos = "ended"
    /\ state = "EXITED" => dos \in {"exited", "ended"}

(* semDoContinue is posted for a thread that waits for it: dbp_state says   *)
(* when the DOSBox thread has exited, unless the strict mode overwrote it. *)
Awaited == ~StrictModeAfterExit =>
    /\ dos \in {"exited", "ended"} => state \in {"EXITED", "SHUTDOWN"} \/ pc = "start"
    /\ doContinue = 1 \/ pc = "wake" => dos \in {"pausedWait", "finishedWait"}

IInv == /\ PlacesTyped /\ ValuesTyped /\ Baton /\ Pauses /\ Frames /\ Calls /\ Lives
        /\ Awaited
-----------------------------------------------------------------------------
(* Without numbers: a wait takes the one post there is, and a post is made *)
(* where there is none.                                                    *)
LEMMA WaitTakes == ASSUME IInv PROVE /\ didPause > 0 => didPause = 1 /\ didPause - 1 = 0
                                     /\ doContinue > 0 => doContinue = 1 /\ doContinue - 1 = 0
  BY DEF IInv, ValuesTyped

(* The same for a post. *)
LEMMA PostGives == ASSUME IInv PROVE /\ ~(didPause = 1) => didPause + 1 = 1
                                     /\ ~(doContinue = 1) => doContinue + 1 = 1
  BY DEF IInv, ValuesTyped

(* What every proof of a step below looks at. *)
USE DEF IInv, Moving, Collected, Out, Between, flags, sems, frontend, returns
-----------------------------------------------------------------------------
(* DBP_ThreadControl: a pause. *)
LEMMA PauseFrameKeeps ==
    ASSUME IInv, PauseFrame PROVE IInv'
  <1>1. (PlacesTyped /\ Calls)'
    BY DEF PauseFrame, PlacesTyped, Calls, CallPoints, ControlPoints,
           ShutdownPoints, InitPoints, Returns, States
  <1>2. ValuesTyped'
    BY DEF PauseFrame, ValuesTyped
  <1>3. (Baton /\ Pauses /\ Frames /\ Lives /\ Awaited)'
    BY DEF PauseFrame, PlacesTyped, ValuesTyped, Baton, Pauses, Frames, Calls,
           Lives, Awaited, CallPoints, ControlPoints, ShutdownPoints, InitPoints, Returns, States
  <1> QED
    BY <1>1, <1>2, <1>3

(* The post is for the pause, or for the end of the frame, whichever came first. *)
LEMMA PausedFrameKeeps ==
    ASSUME IInv, PausedFrame PROVE IInv'
  <1>1. didPause = 1 /\ didPause' = 0
    BY WaitTakes DEF PausedFrame
  <1>2. (PlacesTyped /\ Calls)'
    BY DEF PausedFrame, PlacesTyped, Calls, CallPoints, ControlPoints,
           ShutdownPoints, InitPoints, Returns, States
  <1>3. ValuesTyped'
    BY <1>1 DEF PausedFrame, ValuesTyped
  <1>4. (Baton /\ Pauses /\ Frames /\ Lives /\ Awaited)'
    BY <1>1 DEF PausedFrame, PlacesTyped, ValuesTyped, Baton, Pauses, Frames, Calls,
           Lives, Awaited, CallPoints, ControlPoints, ShutdownPoints, InitPoints, Returns, States
  <1> QED
    BY <1>2, <1>3, <1>4

(* The machine is given back if its frame was paused. *)
LEMMA ResumeFrameKeeps ==
    ASSUME IInv, ResumeFrame PROVE IInv'
  <1>1. pending => doContinue = 0 /\ doContinue' = 1
    BY PostGives DEF ResumeFrame, ValuesTyped, Baton, Frames
  <1>2. (PlacesTyped /\ Calls)'
    BY DEF ResumeFrame, PlacesTyped, Calls, CallPoints, ControlPoints,
           ShutdownPoints, InitPoints, Returns, States
  <1>3. ValuesTyped'
    BY <1>1 DEF ResumeFrame, ValuesTyped
  <1>4. (Baton /\ Pauses /\ Frames /\ Lives /\ Awaited)'
    BY <1>1 DEF ResumeFrame, PlacesTyped, ValuesTyped, Baton, Pauses, Frames, Calls,
           Lives, Awaited, CallPoints, ControlPoints, ShutdownPoints, InitPoints, Returns, States
  <1> QED
    BY <1>2, <1>3, <1>4

(* The end of the frame. *)
LEMMA FinishFrameKeeps ==
    ASSUME IInv, FinishFrame PROVE IInv'
  <1>1. pc = "finish" /\ ~pauseEvents /\ UNCHANGED <<pauseEvents, doContinue>>
    BY DEF FinishFrame, Pauses
  <1>2. (PlacesTyped /\ Calls)'
    BY DEF FinishFrame, PlacesTyped, Calls, CallPoints, ControlPoints,
           ShutdownPoints, InitPoints, Returns, States
  <1>3. ValuesTyped'
    BY <1>1 DEF FinishFrame, ValuesTyped
  <1>4. (Baton /\ Pauses /\ Frames /\ Lives /\ Awaited)'
    BY <1>1 DEF FinishFrame, PlacesTyped, ValuesTyped, Baton, Pauses, Frames, Calls,
           Lives, Awaited, CallPoints, ControlPoints, ShutdownPoints, InitPoints, Returns, States
  <1> QED
    BY <1>2, <1>3, <1>4

(* A frame that was waited for is not in flight any more. *)
LEMMA FinishedFrameKeeps ==
    ASSUME IInv, FinishedFrame PROVE IInv'
  <1>1. didPause = 1 /\ didPause' = 0
    BY WaitTakes DEF FinishedFrame
  <1>2. (PlacesTyped /\ Calls)'
    BY DEF FinishedFrame, PlacesTyped, Calls, CallPoints, ControlPoints,
           ShutdownPoints, InitPoints, Returns, States
  <1>3. ValuesTyped'
    BY <1>1 DEF FinishedFrame, ValuesTyped
  <1>4. (Baton /\ Pauses /\ Frames /\ Lives /\ Awaited)'
    BY <1>1 DEF FinishedFrame, PlacesTyped, ValuesTyped, Baton, Pauses, Frames, Calls,
           Lives, Awaited, CallPoints, ControlPoints, ShutdownPoints, InitPoints, Returns, States
  <1> QED
    BY <1>2, <1>3, <1>4

(* The next frame, unless the DOSBox thread has exited. *)
LEMMA NextFrameKeeps ==
    ASSUME IInv, NextFrame PROVE IInv'
  <1>1. state # "EXITED" => doContinue = 0 /\ doContinue' = 1
    BY PostGives DEF NextFrame, ValuesTyped, Baton, Frames
  <1>2. (PlacesTyped /\ Calls)'
    BY DEF NextFrame, PlacesTyped, Calls, CallPoints, ControlPoints,
           ShutdownPoints, InitPoints, Returns, States
  <1>3. ValuesTyped'
    BY <1>1 DEF NextFrame, ValuesTyped
  <1>4. (Baton /\ Pauses /\ Frames /\ Lives /\ Awaited)'
    BY <1>1 DEF NextFrame, PlacesTyped, ValuesTyped, Baton, Pauses, Frames, Calls,
           Lives, Awaited, CallPoints, ControlPoints, ShutdownPoints, InitPoints, Returns, States
  <1> QED
    BY <1>2, <1>3, <1>4

(* DBP_Shutdown. *)
LEMMA ShutdownKeeps ==
    ASSUME IInv, Shutdown PROVE IInv'
  <1>1. (PlacesTyped /\ Calls)'
    BY DEF Shutdown, PlacesTyped, Calls, CallPoints, ControlPoints,
           ShutdownPoints, InitPoints, Returns, States
  <1>2. ValuesTyped'
    BY DEF Shutdown, ValuesTyped
  <1>3. (Baton /\ Pauses /\ Frames /\ Lives /\ Awaited)'
    BY DEF Shutdown, PlacesTyped, ValuesTyped, Baton, Pauses, Frames, Calls,
           Lives, Awaited, CallPoints, ControlPoints, ShutdownPoints, InitPoints, Returns, States
  <1> QED
    BY <1>1, <1>2, <1>3

(* The frame is stopped or over. *)
LEMMA ShutdownHeldKeeps ==
    ASSUME IInv, ShutdownHeld PROVE IInv'
  <1>1. didPause = 1 /\ didPause' = 0
    BY WaitTakes DEF ShutdownHeld
  <1>2. (PlacesTyped /\ Calls)'
    BY DEF ShutdownHeld, PlacesTyped, Calls, CallPoints, ControlPoints,
           ShutdownPoints, InitPoints, Returns, States
  <1>3. ValuesTyped'
    BY <1>1 DEF ShutdownHeld, ValuesTyped
  <1>4. (Baton /\ Pauses /\ Frames /\ Lives /\ Awaited)'
    BY <1>1 DEF ShutdownHeld, PlacesTyped, ValuesTyped, Baton, Pauses, Frames, Calls,
           Lives, Awaited, CallPoints, ControlPoints, ShutdownPoints, InitPoints, Returns, States
  <1> QED
    BY <1>2, <1>3, <1>4

(* Told to shut down, or exited already. *)
LEMMA ForceShutdownKeeps ==
    ASSUME IInv, ForceShutdown PROVE IInv'
  <1>1. (PlacesTyped /\ Calls)'
    BY DEF ForceShutdown, PlacesTyped, Calls, CallPoints, ControlPoints,
           ShutdownPoints, InitPoints, Returns, States
  <1>2. ValuesTyped'
    BY DEF ForceShutdown, ValuesTyped
  <1>3. (Baton /\ Pauses /\ Frames /\ Lives /\ Awaited)'
    BY DEF ForceShutdown, PlacesTyped, ValuesTyped, Baton, Pauses, Frames, Calls,
           Lives, Awaited, CallPoints, ControlPoints, ShutdownPoints, InitPoints, Returns, States
  <1> QED
    BY <1>1, <1>2, <1>3

(* The baton is given for the machine to come to its end ... *)
LEMMA ShutdownWakeKeeps ==
    ASSUME IInv, ShutdownWake PROVE IInv'
  <1>1. doContinue = 0 /\ doContinue' = 1
    BY PostGives DEF ShutdownWake, ValuesTyped, Baton, Frames
  <1>2. (PlacesTyped /\ Calls)'
    BY DEF ShutdownWake, PlacesTyped, Calls, CallPoints, ControlPoints,
           ShutdownPoints, InitPoints, Returns, States
  <1>3. ValuesTyped'
    BY <1>1 DEF ShutdownWake, ValuesTyped
  <1>4. (Baton /\ Pauses /\ Frames /\ Lives /\ Awaited)'
    BY <1>1 DEF ShutdownWake, PlacesTyped, ValuesTyped, Baton, Pauses, Frames, Calls,
           Lives, Awaited, CallPoints, ControlPoints, ShutdownPoints, InitPoints, Returns, States
  <1> QED
    BY <1>2, <1>3, <1>4

(* ... and taken back. *)
LEMMA ShutdownWaitKeeps ==
    ASSUME IInv, ShutdownWait PROVE IInv'
  <1>1. didPause = 1 /\ didPause' = 0
    BY WaitTakes DEF ShutdownWait
  <1>2. (PlacesTyped /\ Calls)'
    BY DEF ShutdownWait, PlacesTyped, Calls, CallPoints, ControlPoints,
           ShutdownPoints, InitPoints, Returns, States
  <1>3. ValuesTyped'
    BY <1>1 DEF ShutdownWait, ValuesTyped
  <1>4. (Baton /\ Pauses /\ Frames /\ Lives /\ Awaited)'
    BY <1>1 DEF ShutdownWait, PlacesTyped, ValuesTyped, Baton, Pauses, Frames, Calls,
           Lives, Awaited, CallPoints, ControlPoints, ShutdownPoints, InitPoints, Returns, States
  <1> QED
    BY <1>2, <1>3, <1>4

(* The thread is over when the machine is deleted. *)
LEMMA DestroyMachineKeeps ==
    ASSUME IInv, DestroyMachine PROVE IInv'
  <1>1. (PlacesTyped /\ Calls)'
    BY DEF DestroyMachine, PlacesTyped, Calls, CallPoints, ControlPoints,
           ShutdownPoints, InitPoints, Returns, States
  <1>2. ValuesTyped'
    BY DEF DestroyMachine, ValuesTyped
  <1>3. (Baton /\ Pauses /\ Frames /\ Lives /\ Awaited)'
    BY DEF DestroyMachine, PlacesTyped, ValuesTyped, Baton, Pauses, Frames, Calls,
           Lives, Awaited, CallPoints, ControlPoints, ShutdownPoints, InitPoints, Returns, States
  <1> QED
    BY <1>1, <1>2, <1>3

(* Every step of DBP_ThreadControl keeps the invariant. *)
LEMMA ThreadControlKeeps ==
    ASSUME IInv, ThreadControl PROVE IInv'
  BY PauseFrameKeeps, PausedFrameKeeps, ResumeFrameKeeps, FinishFrameKeeps,
         FinishedFrameKeeps, NextFrameKeeps, ShutdownKeeps, ShutdownHeldKeeps,
         ForceShutdownKeeps, ShutdownWakeKeeps, ShutdownWaitKeeps, DestroyMachineKeeps
         DEF ThreadControl
-----------------------------------------------------------------------------
(* init_dosbox after a shutdown. *)
LEMMA ResetMachineKeeps ==
    ASSUME IInv, ResetMachine PROVE IInv'
  <1>1. (PlacesTyped /\ Calls)'
    BY DEF ResetMachine, PlacesTyped, Calls, CallPoints, ControlPoints,
           ShutdownPoints, InitPoints, Returns, States
  <1>2. ValuesTyped'
    BY DEF ResetMachine, ValuesTyped
  <1>3. (Baton /\ Pauses /\ Frames /\ Lives /\ Awaited)'
    BY DEF ResetMachine, PlacesTyped, ValuesTyped, Baton, Pauses, Frames, Calls,
           Lives, Awaited, CallPoints, ControlPoints, ShutdownPoints, InitPoints, Returns, States
  <1> QED
    BY <1>1, <1>2, <1>3

(* A new thread is the one that has the machine. *)
LEMMA StartThreadKeeps ==
    ASSUME IInv, StartThread PROVE IInv'
  <1>1. (PlacesTyped /\ Calls)'
    BY DEF StartThread, PlacesTyped, Calls, CallPoints, ControlPoints,
           ShutdownPoints, InitPoints, Returns, States
  <1>2. ValuesTyped'
    BY DEF StartThread, ValuesTyped
  <1>3. (Baton /\ Pauses /\ Frames /\ Lives /\ Awaited)'
    BY DEF StartThread, PlacesTyped, ValuesTyped, Baton, Pauses, Frames, Calls,
           Lives, Awaited, CallPoints, ControlPoints, ShutdownPoints, InitPoints, Returns, States
  <1> QED
    BY <1>1, <1>2, <1>3

(* The rest of init_dosbox and retro_load_game only moves on. *)
LEMMA RetroLoadGameKeeps ==
    ASSUME IInv, RetroLoadGame PROVE IInv'
  <1> USE DEF Goto, Call, InitCall, PlacesTyped, ValuesTyped, Baton, Pauses, Frames,
            Calls, Lives,
          Awaited, CallPoints, ControlPoints, ShutdownPoints, InitPoints, Returns, States
  <1>1. CASE InitDosbox
    BY <1>1 DEF InitDosbox
  <1>2. CASE AvInfo
    BY <1>2 DEF AvInfo
  <1>3. CASE AvCheck
    BY <1>3 DEF AvCheck
  <1>4. CASE AvAgain
    BY <1>4 DEF AvAgain
  <1>5. CASE GameLoaded
    BY <1>5 DEF GameLoaded
  <1> QED
    BY <1>1, <1>2, <1>3, <1>4, <1>5, ResetMachineKeeps, StartThreadKeeps DEF
           RetroLoadGame

(* RetroCore unloads what is loaded. *)
LEMMA UnloadGameKeeps ==
    ASSUME IInv, UnloadGame PROVE IInv'
  <1>1. (PlacesTyped /\ Calls)'
    BY DEF UnloadGame, PlacesTyped, Calls, CallPoints, ControlPoints,
           ShutdownPoints, InitPoints, Returns, States
  <1>2. ValuesTyped'
    BY DEF UnloadGame, ValuesTyped
  <1>3. (Baton /\ Pauses /\ Frames /\ Lives /\ Awaited)'
    BY DEF UnloadGame, PlacesTyped, ValuesTyped, Baton, Pauses, Frames, Calls,
           Lives, Awaited, CallPoints, ControlPoints, ShutdownPoints, InitPoints, Returns, States
  <1> QED
    BY <1>1, <1>2, <1>3

(* The frontend's calls. *)
LEMMA FrontendCallKeeps ==
    ASSUME IInv, FrontendCall PROVE IInv'
  <1> USE DEF Goto, Call, InitCall, PlacesTyped, ValuesTyped, Baton, Pauses, Frames,
            Calls, Lives,
          Awaited, CallPoints, ControlPoints, ShutdownPoints, InitPoints, Returns, States
  <1>1. CASE LoadGame
    BY <1>1 DEF LoadGame
  <1>2. CASE RunFrame
    BY <1>2 DEF RunFrame
  <1> QED
    BY <1>1, <1>2, UnloadGameKeeps DEF FrontendCall

(* retro_run: dbp_state is written without the baton, but never to a state  *)
(* that says more than the DOSBox thread has done.                         *)
LEMMA RetroRunKeeps ==
    ASSUME IInv, RetroRun PROVE IInv'
  <1> USE DEF Goto, Call, InitCall, Variables, PlacesTyped, ValuesTyped, Baton,
            Pauses, Frames, Calls, Lives,
          Awaited, CallPoints, ControlPoints, ShutdownPoints, InitPoints, Returns, States
  <1>1. CASE NoVariables
    BY <1>1 DEF NoVariables
  <1>2. CASE SetStrictMode
    BY <1>2 DEF SetStrictMode
  <1>3. CASE SetOption
    BY <1>3 DEF SetOption
  <1>4. CASE PauseForOption
    BY <1>4 DEF PauseForOption
  <1>5. CASE ApplyOption
    BY <1>5 DEF ApplyOption
  <1>6. CASE OptionsDone
    BY <1>6 DEF OptionsDone
  <1>7. CASE ReadState
    BY <1>7 DEF ReadState
  <1>8. CASE FirstFrame
    BY <1>8 DEF FirstFrame
  <1>9. CASE FirstFrameDone
    BY <1>9 DEF FirstFrameDone
  <1>10. CASE HandleCrash
    BY <1>10 DEF HandleCrash
  <1>11. CASE HandleReboot
    BY <1>11 DEF HandleReboot
  <1>12. CASE HandleExit
    BY <1>12 DEF HandleExit
  <1>13. CASE HandleMenu
    BY <1>13 DEF HandleMenu
  <1>14. CASE SubmitLastFrame
    BY <1>14 DEF SubmitLastFrame
  <1>15. CASE EmulateFrame
    BY <1>15 DEF EmulateFrame
  <1>16. CASE SkipFrame
    BY <1>16 DEF SkipFrame
  <1>17. CASE MixAudio
    BY <1>17 DEF MixAudio
  <1>18. CASE MixAudioSkipped
    BY <1>18 DEF MixAudioSkipped
  <1> QED
    BY <1>1, <1>2, <1>3, <1>4, <1>5, <1>6, <1>7, <1>8, <1>9, <1>10, <1>11, <1>12,
           <1>13, <1>14, <1>15, <1>16, <1>17, <1>18 DEF RetroRun

-----------------------------------------------------------------------------
(* The DOSBox thread stops in the middle of a frame, for the pause asked for. *)
LEMMA OnPauseFrameKeeps ==
    ASSUME IInv, OnPauseFrame PROVE IInv'
  <1>1. didPause = 0 /\ didPause' = 1
    BY PostGives DEF OnPauseFrame, ValuesTyped, Baton
  <1>2. (PlacesTyped /\ Calls)'
    BY DEF OnPauseFrame, DosOnly, PlacesTyped, Calls, CallPoints, ControlPoints,
           ShutdownPoints, InitPoints, Returns, States
  <1>3. ValuesTyped'
    BY <1>1 DEF OnPauseFrame, DosOnly, ValuesTyped
  <1>4. (Baton /\ Pauses /\ Frames /\ Lives /\ Awaited)'
    BY <1>1 DEF OnPauseFrame, DosOnly, PlacesTyped, ValuesTyped, Baton, Pauses,
           Frames, Calls,
           Lives, Awaited, CallPoints, ControlPoints, ShutdownPoints, InitPoints, Returns, States
  <1> QED
    BY <1>2, <1>3, <1>4

(* It stops at the end of the frame. *)
LEMMA OnFinishFrameKeeps ==
    ASSUME IInv, OnFinishFrame PROVE IInv'
  <1>1. didPause = 0 /\ didPause' = 1
    BY PostGives DEF OnFinishFrame, ValuesTyped, Baton
  <1>2. (PlacesTyped /\ Calls)'
    BY DEF OnFinishFrame, DosOnly, PlacesTyped, Calls, CallPoints, ControlPoints,
           ShutdownPoints, InitPoints, Returns, States
  <1>3. ValuesTyped'
    BY <1>1 DEF OnFinishFrame, DosOnly, ValuesTyped
  <1>4. (Baton /\ Pauses /\ Frames /\ Lives /\ Awaited)'
    BY <1>1 DEF OnFinishFrame, DosOnly, PlacesTyped, ValuesTyped, Baton, Pauses,
           Frames, Calls,
           Lives, Awaited, CallPoints, ControlPoints, ShutdownPoints, InitPoints, Returns, States
  <1> QED
    BY <1>2, <1>3, <1>4

(* It goes on. *)
LEMMA ContinueKeeps ==
    ASSUME IInv, Continue PROVE IInv'
  <1>1. doContinue = 1 /\ doContinue' = 0
    BY WaitTakes DEF Continue
  <1>2. (PlacesTyped /\ Calls)'
    BY DEF Continue, DosOnly, PlacesTyped, Calls, CallPoints, ControlPoints,
           ShutdownPoints, InitPoints, Returns, States
  <1>3. ValuesTyped'
    <2>1. midframe' \in BOOLEAN
      BY DEF Continue, ValuesTyped
    <2> QED
      BY <1>1, <2>1 DEF Continue, DosOnly, ValuesTyped
  <1>4. (Baton /\ Pauses /\ Frames /\ Lives /\ Awaited)'
    BY <1>1 DEF Continue, DosOnly, PlacesTyped, ValuesTyped, Baton, Pauses, Frames,
           Calls,
           Lives, Awaited, CallPoints, ControlPoints, ShutdownPoints, InitPoints, Returns, States
  <1> QED
    BY <1>2, <1>3, <1>4

(* It is over, which somebody waits for. *)
LEMMA OnShutdownKeeps ==
    ASSUME IInv, OnShutdown PROVE IInv'
  <1>1. didPause = 0 /\ didPause' = 1
    BY PostGives DEF OnShutdown, ValuesTyped, Baton
  <1>2. (PlacesTyped /\ Calls)'
    BY DEF OnShutdown, DosOnly, PlacesTyped, Calls, CallPoints, ControlPoints,
           ShutdownPoints, InitPoints, Returns, States
  <1>3. ValuesTyped'
    BY <1>1 DEF OnShutdown, DosOnly, ValuesTyped
  <1>4. (Baton /\ Pauses /\ Frames /\ Lives /\ Awaited)'
    BY <1>1 DEF OnShutdown, DosOnly, PlacesTyped, ValuesTyped, Baton, Pauses, Frames,
           Calls,
           Lives, Awaited, CallPoints, ControlPoints, ShutdownPoints, InitPoints, Returns, States
  <1> QED
    BY <1>2, <1>3, <1>4

(* What else it does, it does while it has the baton. *)
LEMMA MachineKeeps ==
    ASSUME IInv, Machine PROVE IInv'
  <1> USE DEF DosOnly, PlacesTyped, ValuesTyped, Baton, Pauses, Frames, Calls, Lives,
          Awaited, CallPoints, ControlPoints, ShutdownPoints, InitPoints, Returns, States
  <1>1. CASE SeePause
    BY <1>1 DEF SeePause
  <1>2. CASE RunProgram
    BY <1>2 DEF RunProgram
  <1>3. CASE Crash
    BY <1>3 DEF Crash
  <1>4. CASE BIOSReboot
    BY <1>4 DEF BIOSReboot
  <1>5. CASE ExitDos
    BY <1>5 DEF ExitDos
  <1> QED
    BY <1>1, <1>2, <1>3, <1>4, <1>5, OnPauseFrameKeeps, OnFinishFrameKeeps,
           ContinueKeeps, OnShutdownKeeps DEF Machine

-----------------------------------------------------------------------------
(* The invariant holds at first. *)
LEMMA InitIInv == Init => IInv
  <1> SUFFICES ASSUME Init PROVE IInv
    OBVIOUS
  <1>1. PlacesTyped /\ Calls
    BY DEF Init, PlacesTyped, Calls, CallPoints, ControlPoints, ShutdownPoints,
           InitPoints,
           Returns, States
  <1>2. ValuesTyped
    BY DEF Init, ValuesTyped
  <1>3. didPause # 1 /\ doContinue # 1
    BY DEF Init
  <1>4. Baton /\ Pauses /\ Frames /\ Lives /\ Awaited
    BY <1>3 DEF Init, Baton, Pauses, Frames, Lives, Awaited
  <1> QED
    BY <1>1, <1>2, <1>4

(* The invariant holds in every state (DBP_ThreadControl, DBP_Shutdown, init_dosbox). *)
THEOREM Inductive == Spec => []IInv
  <1>1. IInv /\ [Next]_vars => IInv'
    <2> SUFFICES ASSUME IInv, [Next]_vars PROVE IInv'
      OBVIOUS
    <2>1. CASE UNCHANGED vars
      BY <2>1 DEF vars, PlacesTyped, ValuesTyped, Baton, Pauses, Frames, Calls, Lives,
             Awaited
    <2> QED
      BY <2>1, FrontendCallKeeps, ThreadControlKeeps, RetroLoadGameKeeps, RetroRunKeeps,
         MachineKeeps DEF Next, EmulationThread
  <1> QED
    BY InitIInv, <1>1, PTL DEF Spec

(* The hand-over: every assertion of DBP_ThreadControl and of init_dosbox's *)
(* callers holds when it is evaluated, whatever the other thread does       *)
(* between two of its lines, and the semaphores are posted for one wait.   *)
THEOREM HandOverHolds == Spec => []HandOver
  <1>1. IInv => HandOver
    <2> SUFFICES ASSUME IInv PROVE HandOver
      OBVIOUS
    <2>1. didPause \in 0 .. 1 /\ doContinue \in 0 .. 1
      BY DEF ValuesTyped
    <2>2. TypeOK
      BY <2>1 DEF PlacesTyped, ValuesTyped, TypeOK
    <2>3. didPause > 0 => didPause = 1
      BY WaitTakes
    <2>4. AssertionsHold
      BY <2>3 DEF AssertionsHold, PlacesTyped, ValuesTyped, Baton, Pauses, Frames,
             Lives,
             CallPoints, ControlPoints
    <2>5. /\ ~(didPause = 1 /\ doContinue = 1)
          /\ pc = "idle" /\ ~pending => ~(didPause = 1) /\ ~(doContinue = 1)
      BY DEF Baton
    <2>6. OneBaton
      BY <2>5 DEF OneBaton, ValuesTyped
    <2> QED
      BY <2>2, <2>4, <2>6 DEF HandOver
  <1> QED
    BY <1>1, Inductive, PTL

(* The machine: the emulation thread looks into it only while the DOSBox    *)
(* thread is parked, and deletes it only when that thread has ended.       *)
THEOREM MachineIsSafe == Spec => []MachineSafe
  <1>1. IInv => MachineSafe
    <2> SUFFICES ASSUME IInv PROVE MachineSafe
      OBVIOUS
    <2>1. ~Out => Parked
      BY DEF Baton, PlacesTyped, ValuesTyped, Parked
    <2>2. MachineExclusive
      BY <2>1 DEF MachineExclusive, Frames
    <2>3. MachineOutlivesThread
      BY DEF MachineOutlivesThread, Lives
    <2> QED
      BY <2>2, <2>3 DEF MachineSafe
  <1> QED
    BY <1>1, Inductive, PTL

(* The two threads never both wait: if the emulation thread waits for       *)
(* semDidPause, then the post is there, or the DOSBox thread has the        *)
(* machine, or it waits for a post of semDoContinue that is there.         *)
THEOREM NeverBothWait ==
    ASSUME ~StrictModeAfterExit
    PROVE  Spec => [](pc \in {"paused", "finished", "held", "exiting"} =>
                         \/ didPause = 1 \/ Moving
                         \/ doContinue = 1 /\ dos \in {"pausedWait", "finishedWait"})
  <1>1. IInv => (pc \in {"paused", "finished", "held", "exiting"} =>
                    \/ didPause = 1 \/ Moving
                    \/ doContinue = 1 /\ dos \in {"pausedWait", "finishedWait"})
    BY DEF Baton, Pauses, Frames, Awaited
  <1> QED
    BY <1>1, Inductive, PTL
=============================================================================
