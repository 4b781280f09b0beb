------------------------------ MODULE VrCaches -------------------------------
(***************************************************************************)
(* The data and instruction caches of the VR4300: vr4300/dcache.c and      *)
(* icache.c, the fills of vr4300/fault.c, the hits of vr4300/pipeline.c    *)
(* and the CACHE instruction of vr4300/functions.c, over physical memory.  *)
(*                                                                         *)
(* A physical line is a number; its page, the tag, is the line number cut  *)
(* by the two lines a page has here, and its index in a cache the line     *)
(* number cut to CacheLines, as for segments without translation. The      *)
(* metadata of a line is tag * 4 + dirty * 2 + valid, as in the code with  *)
(* the tag's low bits dropped.                                             *)
(***************************************************************************)
EXTENDS Naturals

CONSTANTS
  CacheLines,   \* 512: lines of each cache; a power of two and at least 2
  MemoryLines,  \* lines of memory
  LineWords,    \* words a line holds
  Values,       \* what a word holds
  CodeLines     \* lines of memory that are executed as well

LinesPerPage == 2

ASSUME VrCachesAssumption ==
  /\ CacheLines \in Nat \ {0} /\ CacheLines % LinesPerPage = 0
  /\ MemoryLines \in Nat \ {0}
  /\ LineWords \in Nat \ {0}
  /\ 0 \in Values
  /\ CodeLines \subseteq 0 .. MemoryLines - 1

VARIABLES
  dcache,   \* vr4300->dcache.lines
  icache,   \* vr4300->icache.lines
  ram,      \* physical memory
  taglo,    \* VR4300_CP0_REGISTER_TAGLO
  latest,   \* history: what the program has last written there
  synced    \* history: how far the program has come in publishing new code

cacheVars == <<dcache, icache, ram, taglo, latest, synced>>

Lines == 0 .. MemoryLines - 1
Words == 0 .. LineWords - 1
Index(a) == a % CacheLines
PageOf(a) == a \div LinesPerPage

\* The bits of metadata.
is_valid(line) == line.metadata % 2 = 1
is_dirty(line) == (line.metadata \div 2) % 2 = 1
get_tag(line) == line.metadata \div 4
invalidate_line(line) == [line EXCEPT !.metadata = IF is_valid(line) THEN @ - 1 ELSE @]
set_dirty(line) == [line EXCEPT !.metadata = IF is_dirty(line) THEN @ ELSE @ + 2]
Clean(line) == [line EXCEPT !.metadata = IF is_dirty(line) THEN @ - 2 ELSE @]
validate_line(tag) == tag * 4 + 1

\* vr4300_dcache_probe, vr4300_icache_probe: is the line of a in the cache?
Probe(cache, a) == get_tag(cache[Index(a)]) = PageOf(a) /\ is_valid(cache[Index(a)])

\* vr4300_dcache_get_tag: the line of memory that line n of the cache is for. The
\* page gives the index bits above the page, the index those in it.
HomeOf(n) == get_tag(dcache[n]) * LinesPerPage + (n % LinesPerPage)

\* Mutant of ShouldFlush: only the line that is asked for is flushed.
ShouldFlushNever(n) == FALSE

\* vr4300_dcache_should_flush_line
ShouldFlush(n) == is_dirty(dcache[n]) /\ is_valid(dcache[n])

WrittenBack(n) == [ram EXCEPT ![HomeOf(n)] = dcache[n].data]
Flushed(n) == IF ShouldFlush(n) THEN WrittenBack(n) ELSE ram

Noted(a, how) == [c \in CodeLines |-> IF c = a THEN how ELSE synced[c]]
Published(S) == [a \in CodeLines |-> IF a \in S /\ synced[a] = "stale" THEN "written" ELSE synced[a]]

\* get_taglo, set_taglo: PTagLo, then the two bits of PState the other way round.
TagLoOf(metadata) ==
  (metadata \div 4) * 4 + (metadata % 2) * 2 + ((metadata \div 2) % 2)

MetadataOf(t) == (t \div 4) * 4 + (t % 2) * 2 + ((t \div 2) % 2)

-----------------------------------------------------------------------------
VrCacheInit ==
  /\ dcache = [n \in 0 .. CacheLines - 1 |-> [metadata |-> 0, data |-> [w \in Words |-> 0]]]
  /\ icache = dcache
  /\ ram = [a \in Lines |-> [w \in Words |-> 0]]
  /\ taglo = 0
  /\ latest = ram
  /\ synced = [a \in CodeLines |-> "synced"]

\* vr4300_dcache_fill
Filled(line, a, memory) == [metadata |-> validate_line(PageOf(a)), data |-> memory[a]]

\* A miss: the old line is written back, the new one filled; the access is tried
\* again, or forgotten when an interrupt comes first.
DCM(a) ==
  /\ ~ Probe(dcache, a)
  /\ ram' = Flushed(Index(a))
  /\ dcache' = [dcache EXCEPT ![Index(a)] = Filled(@, a, ram')]
  /\ UNCHANGED <<icache, taglo, latest, synced>>

StoreHit(a, w, v) ==
  /\ Probe(dcache, a)
  /\ dcache' = [dcache EXCEPT ![Index(a)] = [set_dirty(@) EXCEPT !.data[w] = v]]
  /\ latest' = [latest EXCEPT ![a][w] = v]
  /\ synced' = Noted(a, "stale")
  /\ UNCHANGED <<icache, ram, taglo>>

\* A store that goes past the cache, or a device. A program does that only to
\* lines that it has taken out of the cache.
UncachedStore(a, w, v) ==
  /\ ~ Probe(dcache, a)
  /\ ram' = [ram EXCEPT ![a][w] = v]
  /\ latest' = [latest EXCEPT ![a][w] = v]
  /\ synced' = Noted(a, "written")
  /\ UNCHANGED <<dcache, icache, taglo>>

\* ICB, for a cached segment: past the data cache.
ICB(a) ==
  /\ ~ Probe(icache, a)
  /\ icache' = [icache EXCEPT ![Index(a)] =
                  [metadata |-> validate_line(PageOf(a)), data |-> ram[a]]]
  /\ UNCHANGED <<dcache, ram, taglo, latest, synced>>

-----------------------------------------------------------------------------
\* CACHE, operation by operation.
ic_invalidate(n) ==
  /\ icache' = [icache EXCEPT ![n] = invalidate_line(@)]
  /\ synced' = [a \in CodeLines |-> IF Index(a) = n /\ synced[a] = "written" THEN "synced" ELSE synced[a]]
  /\ UNCHANGED <<dcache, ram, taglo, latest>>

ic_invalidate_hit(a) ==
  /\ icache' = IF Probe(icache, a) THEN [icache EXCEPT ![Index(a)] = invalidate_line(@)] ELSE icache
  /\ synced' = [synced EXCEPT ![a] = IF @ = "written" THEN "synced" ELSE @]
  /\ UNCHANGED <<dcache, ram, taglo, latest>>

dc_wb_invalidate(n) ==
  /\ ram' = Flushed(n)
  /\ dcache' = [dcache EXCEPT ![n] = IF is_valid(@) THEN Clean(invalidate_line(@)) ELSE @]
  /\ synced' = Published({a \in Lines : Index(a) = n})
  /\ UNCHANGED <<icache, taglo, latest>>

dc_hit_invalidate(a) ==
  /\ Probe(dcache, a)
  /\ dcache' = [dcache EXCEPT ![Index(a)] = invalidate_line(@)]
  /\ latest' = [latest EXCEPT ![a] = ram[a]]
  /\ synced' = IF latest[a] = ram[a] THEN Published({a}) ELSE Noted(a, "written")
  /\ UNCHANGED <<icache, ram, taglo>>

\* The dirty bit stays.
dc_hit_wb_invalidate(a) ==
  /\ Probe(dcache, a)
  /\ ram' = Flushed(Index(a))
  /\ dcache' = [dcache EXCEPT ![Index(a)] = invalidate_line(@)]
  /\ synced' = Published({a})
  /\ UNCHANGED <<icache, taglo, latest>>

dc_hit_wb(a) ==
  /\ Probe(dcache, a)
  /\ ram' = Flushed(Index(a))
  /\ dcache' = [dcache EXCEPT ![Index(a)] = Clean(@)]
  /\ synced' = Published({a})
  /\ UNCHANGED <<icache, taglo, latest>>

\* The line takes the address without the memory's contents: the program is to
\* write all of it.
dc_create_dirty_ex(a) ==
  /\ ram' = Flushed(Index(a))
  /\ dcache' = [dcache EXCEPT ![Index(a)].metadata = PageOf(a) * 4 + 3]
  /\ latest' = [latest EXCEPT ![a] = dcache[Index(a)].data]
  /\ synced' = Noted(a, "stale")
  /\ UNCHANGED <<icache, taglo>>

dc_get_taglo(n) ==
  /\ taglo' = TagLoOf(dcache[n].metadata)
  /\ UNCHANGED <<dcache, icache, ram, latest, synced>>

\* Programs set the tag they have read, or reset the caches with 0.
dc_set_taglo(n) ==
  /\ taglo = TagLoOf(dcache[n].metadata) \/ (taglo = 0 /\ ~ ShouldFlush(n))
  /\ dcache' = [dcache EXCEPT ![n].metadata = MetadataOf(taglo)]
  /\ UNCHANGED <<icache, ram, taglo, latest, synced>>

\* The instruction cache takes the valid bit alone.
ic_set_taglo(n) ==
  /\ taglo = 0
  /\ icache' = [icache EXCEPT ![n].metadata = (taglo \div 4) * 4 + ((taglo \div 2) % 2)]
  /\ UNCHANGED <<dcache, ram, taglo, latest, synced>>

VrCacheNext ==
  \/ \E a \in Lines :
       \/ DCM(a) \/ dc_hit_invalidate(a)
       \/ dc_hit_wb_invalidate(a) \/ dc_hit_wb(a) \/ dc_create_dirty_ex(a)
       \/ \E w \in Words, v \in Values : StoreHit(a, w, v) \/ UncachedStore(a, w, v)
  \/ \E a \in CodeLines : ICB(a) \/ ic_invalidate_hit(a)
  \/ \E n \in 0 .. CacheLines - 1 :
       ic_invalidate(n) \/ dc_wb_invalidate(n) \/ dc_get_taglo(n) \/ dc_set_taglo(n) \/ ic_set_taglo(n)

VrCacheSpec == VrCacheInit /\ [][VrCacheNext]_cacheVars

-----------------------------------------------------------------------------
\* What the program reads at a line: the cache's data, or the memory's.
Seen(a) == IF Probe(dcache, a) THEN dcache[Index(a)].data ELSE ram[a]

\* The program reads back what it has last written, whatever was filled, evicted,
\* written back or invalidated in between.
ReadsLatest == \A a \in Lines : Seen(a) = latest[a]

\* A line that is valid and not dirty holds what memory holds: dropping it loses
\* nothing.
CleanIsMemory ==
  \A n \in 0 .. CacheLines - 1 :
    is_valid(dcache[n]) /\ ~ is_dirty(dcache[n]) => dcache[n].data = ram[HomeOf(n)]

\* Code that was written, written back and then invalidated in the instruction
\* cache is the code that is fetched.
CodeFresh ==
  \A a \in CodeLines :
    synced[a] = "synced" =>
      (IF Probe(icache, a) THEN icache[Index(a)].data ELSE ram[a]) = latest[a]

\* Caches and memory as a whole: the CPU reads what was last written, a clean
\* line is memory's, and code that was made visible is what is fetched.
CachesRight == ReadsLatest /\ CleanIsMemory /\ CodeFresh
=============================================================================
