------------------------------ MODULE CodeCache ------------------------------
(***************************************************************************)
(* The cache of translated code (dyn_cache.h), as the dynamic cores use it *)
(* (core_dyn_x86.cpp, core_dynrec.cpp).  A block is the translation of a   *)
(* stretch of one page of the emulated memory; a stretch that runs over    *)
(* the end of its page has a second block, the cross block, for the part   *)
(* in the next page.  Blocks jump straight into each other once they are   *)
(* linked.  A page that holds translated code has a handler that sees the  *)
(* writes to it and clears the blocks they hit; the memory of the cache is *)
(* one row of pieces, reused round and round.                              *)
(*                                                                         *)
(* The decoder (MakeCodePage, CreateCacheBlock) is not in the repository:  *)
(* Translate has of it what dyn_cache.h is made for.  Left out are the     *)
(* holes of the write map, the count of invalidations, which only makes    *)
(* the core interpret more, and the generated code itself: a running block *)
(* writes, follows a link or leaves.                                       *)
(***************************************************************************)
EXTENDS Integers, Sequences, FiniteSets, FiniteSetsExt

CONSTANTS
    Pages,          \* pages of the emulated memory
    PageEnd,        \* the last address of a page
    HashSize,       \* addresses that share a list of hash_map, 2^DYN_HASH_SHIFT
    Blocks,         \* the block structures, CACHE_BLOCKS of them
    CacheTotal,     \* CACHE_TOTAL
    CacheMaxSize,   \* CACHE_MAXSIZE: room a translation may need
    CacheAlign,     \* CACHE_ALIGN
    CachePages,     \* CACHE_PAGES: the handlers
    ReleaseDelay,   \* active_count: writes until a page without blocks is released
    LinkIds,        \* the two ways out of a block
    LinkBlock,      \* link_blocks: the default way out, back to the core
    None

Addresses == 0..PageEnd

ASSUME CacheAssumption ==
    /\ PageEnd \in Nat /\ HashSize \in Nat \ {0}
    /\ Blocks \subseteq Nat /\ Blocks # {} /\ IsFiniteSet(Blocks)
    /\ CacheMaxSize \in Nat \ {0} /\ CacheTotal \in Nat /\ CacheTotal >= CacheMaxSize
    /\ CacheAlign \in Nat \ {0}
    /\ CachePages \in Nat /\ CachePages > 1
    /\ ReleaseDelay \in Nat \ {0}
    /\ None \notin Pages \cup Blocks /\ LinkBlock \notin Blocks

VARIABLES
    initialized,    \* cache_initialized
    blocks,         \* block -> its page or None when it stands for nothing, the stretch
                    \* first..last, whether it is hashed by its start (a cross block is
                    \* not), the other block of a pair, and its links to and from others
    code,           \* the pieces of the cache memory in their order: block and size
    active,         \* cache.block.active: the piece the next translation takes
    free,           \* the free list
    write_map,      \* page -> address -> blocks that cover it
    used,           \* cache.used_pages: pages with a handler, the oldest first
    active_count,   \* page -> writes until the release
    current,        \* the block that runs, or None: the core or the interpreter does
    stale,          \* ghost: blocks that cover bytes written since their translation
    unnoticed       \* ghost: a block was cleared while it ran, and was not left

cacheVars == <<blocks, code, active, free, write_map, used, active_count>>
codeVars == <<initialized, cacheVars, current, stale, unnoticed>>
-----------------------------------------------------------------------------
(* The operations work on the cache as one value. *)

Cache == [blocks |-> blocks, code |-> code, active |-> active, free |-> free,
          write_map |-> write_map, used |-> used, active_count |-> active_count]

Becomes(c) ==
    /\ blocks' = c.blocks /\ code' = c.code /\ active' = c.active /\ free' = c.free
    /\ write_map' = c.write_map /\ used' = c.used /\ active_count' = c.active_count

Unused == [page |-> None, first |-> 0, last |-> 0, hashed |-> TRUE, other |-> None,
           to |-> [i \in LinkIds |-> LinkBlock], from |-> [i \in LinkIds |-> {}]]

\* One piece, of a first block that stands for nothing.
EmptyCache ==
    LET b == Min(Blocks)
    IN  [blocks |-> [c \in Blocks |-> Unused], code |-> <<[block |-> b, size |-> CacheTotal]>>,
         active |-> b, free |-> Blocks \ {b},
         write_map |-> [p \in Pages |-> [a \in Addresses |-> 0]],
         used |-> <<>>, active_count |-> [p \in Pages |-> ReleaseDelay]]

IsLive(c, b)    == c.blocks[b].page # None
InPage(c, p)    == {b \in Blocks : c.blocks[b].page = p}
Covers(c, b, p, s, e) == c.blocks[b].page = p /\ s <= c.blocks[b].last /\ e >= c.blocks[b].first
HasHandler(c, p) == \E k \in 1..Len(c.used) : c.used[k] = p

\* The structures with another content of one of them.
Changed(blks, b, content) == [c \in Blocks |-> IF c = b THEN content ELSE blks[c]]
-----------------------------------------------------------------------------
(* CacheBlockDynRec and CodePageHandlerDynRec *)

\* Who still jumps to c by way i when b no longer does, and to whom c does.
FromWithout(blks, b, c, i) ==
    IF c = b THEN {} ELSE IF c = blks[b].to[i] THEN blks[c].from[i] \ {b} ELSE blks[c].from[i]
ToWithout(blks, b, c, i) == IF c \in blks[b].from[i] THEN LinkBlock ELSE blks[c].to[i]

\* Mutant of Unlink: the blocks that jump here keep their link.
UnlinkTargetsOnly(blks, b) ==
    [c \in Blocks |->
        [blks[c] EXCEPT !.from = [i \in LinkIds |-> FromWithout(blks, b, c, i)]]]

\* Those who jump to b go back to the core, and the target of b forgets it.
Unlink(blks, b) ==
    [c \in Blocks |->
        [blks[c] EXCEPT !.to   = [i \in LinkIds |-> ToWithout(blks, b, c, i)],
                        !.from = [i \in LinkIds |-> FromWithout(blks, b, c, i)]]]

\* The first part of Clear: a cross block has no links and is given back.
Drop(c, b) ==
    IF c.blocks[b].hashed THEN [c EXCEPT !.blocks = Unlink(@, b)]
                          ELSE [c EXCEPT !.free = @ \cup {b}]

\* Mutant of DelCacheBlock: the last byte stays marked.
DelCacheBlockShort(c, b) ==
    LET p == c.blocks[b].page
    IN  IF p = None THEN c
        ELSE [c EXCEPT
            !.write_map[p] = [a \in Addresses |->
                IF a >= c.blocks[b].first /\ a < c.blocks[b].last /\ @[a] > 0 THEN @[a] - 1 ELSE @[a]],
            !.active_count[p] = ReleaseDelay,
            !.blocks = Changed(@, b, [@[b] EXCEPT !.page = None])]

\* The last part: the page no longer knows the block.
DelCacheBlock(c, b) ==
    LET p == c.blocks[b].page
    IN  IF p = None THEN c
        ELSE [c EXCEPT
            !.write_map[p] = [a \in Addresses |->
                IF a \in c.blocks[b].first..c.blocks[b].last /\ @[a] > 0 THEN @[a] - 1 ELSE @[a]],
            !.active_count[p] = ReleaseDelay,
            !.blocks = Changed(@, b, [@[b] EXCEPT !.page = None])]

\* The two blocks of a pair are cleared together.
Clear(c, b) ==
    LET o           == c.blocks[b].other
        alone(d, x) == [d EXCEPT !.blocks = Changed(@, x, [@[x] EXCEPT !.other = None])]
        parted      == alone(alone(Drop(c, b), o), b)
    IN  IF o = None THEN DelCacheBlock(Drop(c, b), b)
        ELSE DelCacheBlock(DelCacheBlock(Drop(parted, o), o), b)

ClearAll(c, S) == FoldSet(LAMBDA b, acc : Clear(acc, b), c, S)

\* hash_map[0] holds the cross blocks.
HashIndex(c, b) == IF c.blocks[b].hashed THEN 1 + c.blocks[b].first \div HashSize ELSE 0

\* Mutant of InvalidateRange: the list of the cross blocks is not looked at.
InvalidateStarts(c, p, s, e) ==
    LET top == 1 + e \div HashSize
        after[n \in 0..top] ==
            IF n = 0 THEN c
            ELSE LET d == after[n - 1]
                 IN  IF \A a \in s..e : d.write_map[p][a] = 0 THEN d
                     ELSE ClearAll(d, {b \in Blocks : /\ Covers(d, b, p, s, e)
                                                      /\ HashIndex(d, b) = top - (n - 1)})
    IN  after[top]

\* The lists are searched from that of the last byte down, until the map says
\* that nothing covers the range.
InvalidateRange(c, p, s, e) ==
    LET top == 1 + e \div HashSize
        after[n \in 0..(top + 1)] ==
            IF n = 0 THEN c
            ELSE LET d == after[n - 1]
                 IN  IF \A a \in s..e : d.write_map[p][a] = 0 THEN d
                     ELSE ClearAll(d, {b \in Blocks : /\ Covers(d, b, p, s, e)
                                                      /\ HashIndex(d, b) = top - (n - 1)})
    IN  after[top + 1]

\* Its answer: the instruction pointer, which is at the start of the block that
\* runs, is in a block that was cleared.
HitsCurrent(c, p, s, e) ==
    LET b == current
    IN  /\ b # None /\ c.blocks[b].page = p
        /\ \E d \in Blocks : Covers(c, d, p, s, e) /\ Covers(c, d, p, c.blocks[b].first, c.blocks[b].first)

\* The handler is given back; what it knew is set up anew for the next page.
Release(c, p) ==
    LET k == CHOOSE k \in 1..Len(c.used) : c.used[k] = p
    IN  [c EXCEPT !.used = SubSeq(@, 1, k - 1) \o SubSeq(@, k + 1, Len(@)),
                  !.write_map[p] = [a \in Addresses |-> 0],
                  !.active_count[p] = ReleaseDelay]

ClearRelease(c, p) ==
    LET alone == [c EXCEPT !.blocks = [b \in Blocks |-> IF @[b].page = p THEN [@[b] EXCEPT !.page = None]
                                                        ELSE @[b]]]
    IN  Release(ClearAll(alone, InPage(c, p)), p)
-----------------------------------------------------------------------------
(* The memory of the cache *)

Place(c, b) == CHOOSE k \in 1..Len(c.code) : c.code[k].block = b

SizeOf(c, from, to) ==
    LET sum[k \in (from - 1)..to] == IF k < from THEN 0 ELSE sum[k - 1] + c.code[k].size
    IN  sum[to]

\* cache_openblock: the active piece, with as many of the next as make the room.
OpenBlock(c) ==
    LET k    == Place(c, c.active)
        ends == {n \in k..Len(c.code) : SizeOf(c, k, n) >= CacheMaxSize}
        end  == IF ends = {} THEN Len(c.code) ELSE Min(ends)
        mine == {c.code[n].block : n \in k..end}
        cleared == FoldSet(LAMBDA b, acc : IF IsLive(acc, b) THEN Clear(acc, b) ELSE acc, c, mine)
    IN  [cleared EXCEPT
            !.free = @ \cup (mine \ {c.active}),
            !.code = SubSeq(@, 1, k - 1) \o <<[block |-> c.active, size |-> SizeOf(c, k, end)]>>
                     \o SubSeq(@, end + 1, Len(@))]

Rounded(written) == ((written - 1) \div CacheAlign + 1) * CacheAlign

\* Whether what is left over becomes a piece of its own.
Splits(c, written) == c.code[Place(c, c.active)].size - written > CacheAlign

\* Mutant of CloseBlock: the rest is cut off, and belongs to nobody.
CloseBlockLosesRest(c, written) ==
    LET k    == Place(c, c.active)
        size == c.code[k].size
        cut  == IF Splits(c, written)
                THEN [c EXCEPT !.code[k] = [@ EXCEPT !.size = Rounded(written)]]
                ELSE c
        next == k + 1
        full == next > Len(cut.code) \/ SizeOf(cut, 1, k) > CacheTotal - CacheMaxSize
    IN  [cut EXCEPT !.active = cut.code[IF full THEN 1 ELSE next].block]

\* cache_closeblock: the piece is cut after what was written, and the next
\* translation takes the piece behind it, or the first of all.
CloseBlock(c, written) ==
    LET k    == Place(c, c.active)
        size == c.code[k].size
        rest == [block |-> Min(c.free), size |-> size - Rounded(written)]
        cut  == IF Splits(c, written)
                THEN [c EXCEPT !.free = @ \ {rest.block},
                               !.code = SubSeq(@, 1, k - 1)
                                        \o <<[block |-> c.active, size |-> Rounded(written)], rest>>
                                        \o SubSeq(@, k + 1, Len(@))]
                ELSE c
        next == k + 1
        full == next > Len(cut.code) \/ SizeOf(cut, 1, k) > CacheTotal - CacheMaxSize
    IN  [cut EXCEPT !.active = cut.code[IF full THEN 1 ELSE next].block]
-----------------------------------------------------------------------------
(* The decoder *)

\* MakeCodePage: a page gets a handler, if need be that of the oldest page, but
\* not that of the page the translation began in.
MakeCodePage(c, p, source) ==
    LET victim == IF c.used[1] # source THEN c.used[1] ELSE c.used[2]
        roomy  == IF Len(c.used) < CachePages THEN c ELSE ClearRelease(c, victim)
    IN  IF HasHandler(c, p) THEN c ELSE [roomy EXCEPT !.used = Append(@, p)]

\* AddCacheBlock and AddCrossBlock: a block takes its place in a page.
AddBlock(c, b, p, first, last, hashed, other) ==
    [c EXCEPT !.blocks = Changed(@, b, [Unused EXCEPT !.page = p, !.first = first, !.last = last,
                                                      !.hashed = hashed, !.other = other]),
              !.write_map[p] = [a \in Addresses |-> IF a \in first..last THEN @[a] + 1 ELSE @[a]]]

\* A translation of the stretch from first, within page p or over its end to
\* the address end of page q.
TranslateIn(c, p, first, last) == AddBlock(c, c.active, p, first, last, TRUE, None)

TranslateOver(c, p, first, q, end) ==
    LET next  == MakeCodePage(c, q, p)
        cross == Min(next.free)
        taken == [next EXCEPT !.free = @ \ {cross}]
    IN  AddBlock(AddBlock(taken, c.active, p, first, PageEnd, TRUE, cross),
                 cross, q, 0, end, FALSE, c.active)

StartsAt(c, p, a) == {b \in Blocks : c.blocks[b].page = p /\ c.blocks[b].hashed /\ c.blocks[b].first = a}
-----------------------------------------------------------------------------
(* The steps *)

CodeInit ==
    /\ initialized = TRUE
    /\ blocks = EmptyCache.blocks /\ code = EmptyCache.code /\ active = EmptyCache.active
    /\ free = EmptyCache.free /\ write_map = EmptyCache.write_map
    /\ used = EmptyCache.used /\ active_count = EmptyCache.active_count
    /\ current = None
    /\ stale = {} /\ unnoticed = FALSE

\* Once a block has been cleared under itself nothing more is said.
Goes == initialized /\ ~unnoticed

\* The core, between blocks.
InCore == Goes /\ current = None

\* No block starts at the instruction: it is translated, and run.  Without
\* structures for the blocks the program ends (E_Exit), and so does the model.
Translate(p, first) ==
    /\ InCore /\ StartsAt(Cache, p, first) = {}
    /\ LET opened == OpenBlock(MakeCodePage(Cache, p, None))
       IN \E written \in 1..CacheMaxSize :
            LET rest == IF Splits(opened, written) THEN 1 ELSE 0
            IN \/ \E last \in first..PageEnd :
                    /\ Cardinality(opened.free) >= rest
                    /\ Becomes(CloseBlock(TranslateIn(opened, p, first, last), written))
               \/ \E q \in Pages \ {p}, end \in Addresses :
                    /\ Cardinality(opened.free) >= rest + 1
                    /\ Becomes(CloseBlock(TranslateOver(opened, p, first, q, end), written))
    /\ current' = active
    /\ stale' = {b \in stale : blocks'[b] = blocks[b]}
    /\ UNCHANGED <<initialized, unnoticed>>

\* FindCacheBlock has it.
RunBlock(b) ==
    /\ InCore /\ IsLive(Cache, b) /\ blocks[b].hashed
    /\ current' = b
    /\ UNCHANGED <<initialized, cacheVars, stale, unnoticed>>

\* The block ends with a link that is made: the next block runs.
Follow(i) ==
    /\ Goes /\ current # None /\ blocks[current].to[i] # LinkBlock
    /\ current' = blocks[current].to[i]
    /\ UNCHANGED <<initialized, cacheVars, stale, unnoticed>>

\* Mutant of LinkTo: the target does not remember who links it.
LinkToOneWay(i, b) ==
    /\ Goes /\ current # None /\ blocks[current].to[i] = LinkBlock
    /\ IsLive(Cache, b) /\ blocks[b].hashed
    /\ blocks' = [blocks EXCEPT ![current].to[i] = b]
    /\ current' = b
    /\ UNCHANGED <<initialized, code, active, free, write_map, used, active_count, stale, unnoticed>>

\* The block ends with the default link, and the target is translated: the two
\* are linked, and the target runs.
LinkTo(i, b) ==
    /\ Goes /\ current # None /\ blocks[current].to[i] = LinkBlock
    /\ IsLive(Cache, b) /\ blocks[b].hashed
    /\ blocks' = [blocks EXCEPT ![current].to[i] = b, ![b].from[i] = @ \cup {current}]
    /\ current' = b
    /\ UNCHANGED <<initialized, code, active, free, write_map, used, active_count, stale, unnoticed>>

\* It ends in another way, or its target is not translated.
LeaveBlock ==
    /\ Goes /\ current # None
    /\ current' = None
    /\ UNCHANGED <<initialized, cacheVars, stale, unnoticed>>

\* A write that hits no code brings the release of an empty page nearer.
Untouched(c, p) ==
    IF InPage(c, p) # {} THEN c
    ELSE IF c.active_count[p] > 1 THEN [c EXCEPT !.active_count[p] = @ - 1]
    ELSE Release(c, p)

Written(c, p, s, e) ==
    IF \A a \in s..e : c.write_map[p][a] = 0 THEN Untouched(c, p)
                                             ELSE InvalidateRange(c, p, s, e)

\* Bytes s..e of a page with a handler change (writeb, writew, writed and their
\* checked forms).  A checked write that hits the block that runs is not made:
\* the block is left, and the interpreter makes it.  The bytes are written, and
\* what still covers them does not stand for them.
WriteCode(p, s, e) ==
    /\ Goes /\ HasHandler(Cache, p)
    /\ LET c == Written(Cache, p, s, e)
       IN  /\ Becomes(c)
           /\ IF HitsCurrent(Cache, p, s, e)
              THEN current' = None /\ UNCHANGED <<stale, unnoticed>>
              ELSE /\ UNCHANGED current
                   /\ stale' = stale \cup {b \in Blocks : Covers(c, b, p, s, e)}
                   /\ unnoticed' = (current # None /\ ~IsLive(c, current))
    /\ UNCHANGED initialized

\* A state is loaded, or the core set up again (DBPSerialize_cache_reset).
CacheReset ==
    /\ InCore
    /\ Becomes(EmptyCache)
    /\ stale' = {}
    /\ UNCHANGED <<initialized, current, unnoticed>>

\* The dynamic core is switched off (cache_close) and on again (cache_init).
CacheClose ==
    /\ InCore
    /\ initialized' = FALSE
    /\ Becomes(EmptyCache)
    /\ stale' = {}
    /\ UNCHANGED <<current, unnoticed>>

CacheInit ==
    /\ ~initialized
    /\ initialized' = TRUE
    /\ UNCHANGED <<cacheVars, current, stale, unnoticed>>

CodeNext ==
    \/ \E p \in Pages, first \in Addresses : Translate(p, first)
    \/ \E b \in Blocks : RunBlock(b)
    \/ \E i \in LinkIds : Follow(i) \/ \E b \in Blocks : LinkTo(i, b)
    \/ LeaveBlock
    \/ \E p \in Pages, s \in Addresses : \E e \in s..PageEnd : WriteCode(p, s, e)
    \/ CacheReset \/ CacheClose \/ CacheInit

CodeSpec == CodeInit /\ [][CodeNext]_codeVars
-----------------------------------------------------------------------------
(* Properties *)

\* Every variable has its type.
CodeTypeOK ==
    /\ initialized \in BOOLEAN /\ unnoticed \in BOOLEAN
    /\ blocks \in [Blocks -> [page : Pages \cup {None}, first : Addresses, last : Addresses,
                              hashed : BOOLEAN, other : Blocks \cup {None},
                              to : [LinkIds -> Blocks \cup {LinkBlock}],
                              from : [LinkIds -> SUBSET Blocks]]]
    /\ \A k \in 1..Len(code) : code[k].block \in Blocks /\ code[k].size \in 1..CacheTotal
    /\ active \in Blocks /\ free \subseteq Blocks /\ stale \subseteq Blocks
    /\ write_map \in [Pages -> [Addresses -> Nat]]
    /\ active_count \in [Pages -> 1..ReleaseDelay]
    /\ used \in Seq(Pages) /\ Len(used) <= CachePages
    /\ current \in Blocks \cup {None}

Live       == {b \in Blocks : IsLive(Cache, b)}
CrossBlocks == {b \in Live : ~blocks[b].hashed}
Pieces     == {code[k].block : k \in 1..Len(code)}

\* However blocks are cleared, merged, cut and given back, every structure is in
\* one place: a piece of the memory, a cross block, or free.  The program ends
\* when none is free, so one that is lost is lost for good.
BlocksConserved ==
    /\ Cardinality(Pieces) = Len(code) /\ active \in Pieces
    /\ Blocks = Pieces \cup CrossBlocks \cup free
    /\ Pieces \cap CrossBlocks = {} /\ Pieces \cap free = {} /\ CrossBlocks \cap free = {}
    /\ SizeOf(Cache, 1, Len(code)) = CacheTotal

\* The blocks of a page are known to its handler: it has one, its map counts the
\* blocks over each byte, which is what a search for them goes by, and the two
\* blocks of a pair live and die together.
PagesKnowBlocks ==
    /\ \A b \in Live : HasHandler(Cache, blocks[b].page)
    /\ \A k \in 1..Len(used), a \in Addresses :
          write_map[used[k]][a] = Cardinality({b \in Blocks : Covers(Cache, b, used[k], a, a)})
    /\ \A b \in Live : blocks[b].other # None =>
          /\ blocks[b].other \in Live /\ blocks[blocks[b].other].other = b
          /\ blocks[b].hashed # blocks[blocks[b].other].hashed

\* The structures of the cache hold together.
CacheSound == CodeTypeOK /\ BlocksConserved /\ PagesKnowBlocks

\* A block that can run jumps only to blocks that stand for something, and those
\* know of it; whoever a block knows of jumps to it.  A link that is out of date
\* runs whatever code the piece was given to since.
LinksLead ==
    \A b \in Live \ CrossBlocks, i \in LinkIds :
        /\ blocks[b].to[i] # LinkBlock =>
              /\ blocks[b].to[i] \in Live \ CrossBlocks
              /\ b \in blocks[blocks[b].to[i]].from[i]
        /\ \A f \in blocks[b].from[i] : f \in Live /\ blocks[f].to[i] = b

\* No block that can be found or run stands for bytes that were written since it
\* was translated, and the block that runs is one of them; but for a write to
\* the second page of the running block, which the handler of that page does
\* not take for a write to it.
CodeIsCurrent ==
    /\ stale \cap Live = {}
    /\ current # None /\ ~unnoticed => current \in Live

\* "if the current block is modified, it has to be exited as soon as possible"
\* (InvalidateRange): a block that is cleared does not go on.
CurrentIsLeft == current # None => current \in Live
=============================================================================
